---------------------------- MODULE Spec2Model ----------------------------
(***************************************************************************)
(* Mr. Plotter account / tag-definition configuration tool.                *)
(*                                                                         *)
(* Three command tables operate on one shared etcd store:                  *)
(*   "cli" : src/unnamed/part_000  (admincli module, MrPlotterCommand)     *)
(*   "v2"  : src/unnamed/part_001  (stand-alone REPL, accounts and tags)   *)
(*   "v1"  : src/main.go           (stand-alone REPL, accounts only)       *)
(* Several administrative sessions run commands concurrently; a session    *)
(* is sequential, and the only points where sessions interleave are the    *)
(* calls into the store (package accounts of mr-plotter, which is not part *)
(* of this repository and is modelled from the store interface).           *)
(*                                                                         *)
(* Go slices are 0-based, TLA+ sequences 1-based: tokens[k] of the source  *)
(* is tokens[k+1] here, and tokens[n:] is Drop(tokens, n).                 *)
(***************************************************************************)
EXTENDS Integers, Sequences, FiniteSets, TLC

VARIABLES accStore,   \* username -> stored account (rev = 0: no record)
          tagStore,   \* tag name -> stored tag definition (rev = 0: no record)
          rev,        \* the store's revision counter
          pc,         \* session -> position in the running command
          loc,        \* session -> locals of the running command
          cur,        \* the command line just read, about to be dispatched
          out         \* what the command completed last emitted and called

vars == <<accStore, tagStore, rev, pc, loc, cur, out>>

\* ------------------------------------------------------------------ bounds
MaxRev == 3     \* writes the store accepts before the model stops writing
MaxArgs == 2    \* items (tags, prefixes, names) after a command's key

\* --------------------------------------------------------------- constants
PUBLIC_TAG == "public"
ALL_TAG == "all"
AllTagSymbol == "<ALL STREAMS>"
txFail == "Transacation for atomic update failed; try again"
alreadyExists == "Already exists"
mustHavePublic == "All user accounts must be assigned the \"public\" tag"
arePublic == "All user accounts are assigned the \"public\" tag"
cannotModifyAll == "Cannot modify definition of \"all\" tag"
cannotDeleteAll == "Tag \"all\" cannot be deleted"
needOnePrefix == "Each tag must be assigned at least one prefix (use undeftag or undeftags to fully remove a tag)"
usage == "Usage"
\* errors of the store interface
notFound == "NotFound"
storeError == "StoreUnavailable"

Sessions == {1, 2}
Variants == {"cli", "v2", "v1"}
TagVariants == {"cli", "v2"}
\* keys of the store
Users == {"albert", "alice", "bob"}
TagNames == {PUBLIC_TAG, "teamA", "teamB", ALL_TAG}
\* what the command lines of a run are made of
CmdUsers == {"alice"}
Passwords == {"pw1", "pw2"}
UserTags == {PUBLIC_TAG, "teamA", "teamB"}
CmdTags == {"teamA", ALL_TAG}
Prefixes == {"/bldg1/", "/bldg2/", "/bldg3/"}

\* ----------------------------------------------------------------- helpers
Drop(s, n) == SubSeq(s, n + 1, Len(s))

SeqsUpTo(S, n) == UNION {[1..k -> S] : k \in 0..n}

sliceToSet(tagSlice) == {tagSlice[i] : i \in DOMAIN tagSlice}

\* acc.SetPassword: the stored credential derived from the plaintext
SetPassword(pw) == <<"hash", pw>>

NoAcc == [rev |-> 0]
NoTagDef == [rev |-> 0]
NoCmd == [s |-> 0, variant |-> "none", tokens |-> <<>>]
NoOut == [s |-> 0, cmd |-> "none", msgs |-> <<>>, calls |-> <<>>,
          committed |-> FALSE, err |-> FALSE]
Idle == [cmd |-> "none"]

\* ------------------------------------------------------------------- store
\* get(key) -> (value, versionToken) | NotFound | error
\* conditionalPut(key, value, expected) -> committed, error
\* A transport error may accompany either value of committed; the write is
\* applied exactly when committed is true.
GetOutcomes == {"ok", "err"}
PutOutcomes == {"ok", "err", "errApplied"}

PutCommitted(stored, expected, outcome) ==
    /\ stored.rev = expected
    /\ outcome # "err"

PutErr(outcome) == outcome # "ok"

\* ------------------------------------------------- command tables: accounts
\* the name of each account command in each table
CmdName(v, op) ==
    CASE op = "grant"  -> IF v = "v1" THEN "addtags" ELSE "grant"
      [] op = "revoke" -> IF v = "v1" THEN "rmtags" ELSE "revoke"
      [] OTHER -> op

\* what a failed arity check emits: argsOK = false in the admincli module,
\* a usage line in the REPLs
ArityOut(v) == IF v = "cli" THEN <<>> ELSE <<usage>>

\* a handler that returns on an error without printing it
writeErrorSilently(err) == <<>>

\* writeError(output, err): the error is printed as the store returned it
writeError(err) == <<err>>

\* a handler that reports every refused write as a lost race
UpsertOutAlwaysConflict(failMsg, success, err) ==
    IF ~success THEN <<txFail>>
    ELSE IF err THEN <<storeError>>
    ELSE <<>>

\* a handler that ignores the success flag of its conditional write
UpsertOutIgnoresSuccess(failMsg, success, err) ==
    IF err THEN <<storeError>> ELSE <<>>

\* what a handler emits after its conditional write
UpsertOut(failMsg, success, err) ==
    IF ~success THEN <<failMsg>>
    ELSE IF err THEN <<storeError>>
    ELSE <<>>

\* adduser reports a refused create as "Already exists", main.go as txFail
CreateFailMsg(v) == IF v = "v1" THEN txFail ELSE alreadyExists

\* adduser without the line that adds PUBLIC_TAG
AdduserTagsForgetsPublic(tokens) == sliceToSet(Drop(tokens, 3))

\* adduser: tagSet := sliceToSet(tokens[3:]); tagSet[PUBLIC_TAG] = struct{}{}
AdduserTags(tokens) == sliceToSet(Drop(tokens, 3)) \cup {PUBLIC_TAG}

\* grant that applies only the first tag of its list
GrantLoopFirstOnly(tags, toks) ==
    IF toks = <<>> THEN tags ELSE tags \cup {Head(toks)}

\* grant / addtags: for _, tag := range tokens[2:] { add if absent }
RECURSIVE GrantLoop(_, _)
GrantLoop(tags, toks) ==
    IF toks = <<>> THEN tags
    ELSE GrantLoop(IF Head(toks) \notin tags THEN tags \cup {Head(toks)} ELSE tags,
                   Tail(toks))

\* revoke that treats "public" like any other tag
RECURSIVE RevokeLoopRemovesPublic(_, _)
RevokeLoopRemovesPublic(tags, toks) ==
    IF toks = <<>> THEN [abort |-> FALSE, tags |-> tags]
    ELSE RevokeLoopRemovesPublic(tags \ {Head(toks)}, Tail(toks))

\* revoke that returns at the first tag the account does not hold
RECURSIVE RevokeLoopStopsEarly(_, _)
RevokeLoopStopsEarly(tags, toks) ==
    IF toks = <<>> THEN [abort |-> FALSE, tags |-> tags]
    ELSE IF Head(toks) = PUBLIC_TAG THEN [abort |-> TRUE, tags |-> tags]
    ELSE IF Head(toks) \notin tags THEN [abort |-> FALSE, tags |-> tags]
    ELSE RevokeLoopStopsEarly(tags \ {Head(toks)}, Tail(toks))

\* revoke (admincli module, REPL v2): a "public" item ends the handler
RECURSIVE RevokeLoop(_, _)
RevokeLoop(tags, toks) ==
    IF toks = <<>> THEN [abort |-> FALSE, tags |-> tags]
    ELSE IF Head(toks) = PUBLIC_TAG THEN [abort |-> TRUE, tags |-> tags]
    ELSE RevokeLoop(IF Head(toks) \in tags THEN tags \ {Head(toks)} ELSE tags,
                    Tail(toks))

\* rmtags (main.go): a "public" item is skipped
RECURSIVE RmtagsLoop(_, _)
RmtagsLoop(tags, toks) ==
    IF toks = <<>> THEN [abort |-> FALSE, tags |-> tags]
    ELSE IF Head(toks) = "public" THEN RmtagsLoop(tags, Tail(toks))
    ELSE RmtagsLoop(IF Head(toks) \in tags THEN tags \ {Head(toks)} ELSE tags,
                    Tail(toks))

RevokeResult(v, tags, toks) ==
    IF v = "v1" THEN RmtagsLoop(tags, toks) ELSE RevokeLoop(tags, toks)

RevokeMsg(v) == IF v = "cli" THEN mustHavePublic ELSE arePublic

\* ------------------------------------------------------------ token lists
\* name key [item ...], and the lines too short for the arity check
KeyedTokens(name, keys, items) ==
    {<<name>>}
    \cup {<<name, k>> : k \in keys}
    \cup {<<name, k>> \o a : k \in keys, a \in SeqsUpTo(items, MaxArgs)}

AdduserTokens ==
    {<<"adduser">>}
    \cup {<<"adduser", u>> : u \in CmdUsers}
    \cup {<<"adduser", u, p>> \o a :
             u \in CmdUsers, p \in Passwords, a \in SeqsUpTo(UserTags, MaxArgs)}

SetpasswordTokens ==
    {<<"setpassword", u>> : u \in CmdUsers}
    \cup {<<"setpassword", u, p>> : u \in CmdUsers, p \in Passwords}
    \cup {<<"setpassword", u, p, q>> : u \in CmdUsers, p \in Passwords, q \in Passwords}

RmuserTokens == {<<"rmuser">> \o a : a \in SeqsUpTo(CmdUsers, MaxArgs)}

GrantTokens == KeyedTokens("grant", CmdUsers, UserTags)
RevokeTokens == KeyedTokens("revoke", CmdUsers, UserTags)
AddtagsTokens == KeyedTokens("addtags", CmdUsers, UserTags)
RmtagsTokens == KeyedTokens("rmtags", CmdUsers, UserTags)

\* the command lines of the account commands of table v
AccCommands(v) ==
    AdduserTokens \cup SetpasswordTokens \cup RmuserTokens
    \cup (IF v = "v1" THEN AddtagsTokens \cup RmtagsTokens
                      ELSE GrantTokens \cup RevokeTokens)

\* ----------------------------------------------------------- session steps
\* accounts_exec / the admincli shell: a session reads one command line
CanIssue(s) ==
    /\ pc[s] = "idle"
    /\ cur = NoCmd
    /\ out = NoOut

Issue(s, v, tokens) ==
    /\ cur' = [s |-> s, variant |-> v, tokens |-> tokens]
    /\ UNCHANGED <<accStore, tagStore, rev, pc, loc, out>>

\* the shell has shown what the handler emitted and prompts again
Prompt(s) ==
    /\ out.s = s
    /\ out' = NoOut
    /\ UNCHANGED <<accStore, tagStore, rev, pc, loc, cur>>

\* a handler's next store call: no command line is being read or answered
Running(s, label) ==
    /\ pc[s] = label
    /\ cur = NoCmd
    /\ out = NoOut

IssueAcc(s) ==
    /\ CanIssue(s)
    /\ \E v \in Variants : \E tokens \in AccCommands(v) : Issue(s, v, tokens)

\* the handler of cur is the one named name in its table
Dispatched(s, op) ==
    /\ cur.s = s
    /\ cur.tokens[1] = CmdName(cur.variant, op)

\* a handler returns
Done(s, msgs, calls, committed, err) ==
    /\ pc' = [pc EXCEPT ![s] = "idle"]
    /\ loc' = [loc EXCEPT ![s] = Idle]
    /\ cur' = NoCmd
    /\ out' = [s |-> s,
               cmd |-> IF cur = NoCmd THEN loc[s].cmd ELSE cur.tokens[1],
               msgs |-> msgs, calls |-> calls, committed |-> committed, err |-> err]

\* a handler goes on to its next store call
Goto(s, label, locals) ==
    /\ pc' = [pc EXCEPT ![s] = label]
    /\ loc' = [loc EXCEPT ![s] = locals]
    /\ cur' = NoCmd
    /\ UNCHANGED out

\* UpsertAccountAtomically(acc): one conditional write of the whole record
PutAccount(u, acc, expected, outcome) ==
    IF PutCommitted(accStore[u], expected, outcome)
    THEN /\ rev < MaxRev
         /\ accStore' = [accStore EXCEPT ![u] =
                            [pw |-> acc.pw, tags |-> acc.tags, rev |-> rev + 1]]
         /\ rev' = rev + 1
    ELSE UNCHANGED <<accStore, rev>>

\* adduser username password [tag1] [tag2] ...
Adduser(s) ==
    /\ Dispatched(s, "adduser")
    /\ LET v == cur.variant
           tokens == cur.tokens
       IN IF Len(tokens) < 3
          THEN /\ Done(s, ArityOut(v), <<>>, FALSE, FALSE)
               /\ UNCHANGED <<accStore, rev>>
          ELSE \E outcome \in PutOutcomes :
                 LET u == tokens[2]
                     acc == [pw |-> SetPassword(tokens[3]), tags |-> AdduserTags(tokens)]
                     success == PutCommitted(accStore[u], 0, outcome)
                 IN /\ PutAccount(u, acc, 0, outcome)
                    /\ Done(s, UpsertOut(CreateFailMsg(v), success, PutErr(outcome)),
                            <<<<"put", u>>>>, success, PutErr(outcome))
    /\ UNCHANGED tagStore

\* an update command that only asks for the tokens it reads
UpdateArityAtLeast3(op, tokens) == Len(tokens) >= 3

\* the arity each table accepts for an account update command
UpdateArityOK(op, tokens) ==
    IF op = "setpassword" THEN Len(tokens) = 3 ELSE Len(tokens) >= 3

\* an update that rebuilds the record from the command line alone
UpdateLocalForgetsRecord(v, op, acc, tokens) ==
    IF op = "setpassword"
    THEN [abort |-> FALSE, pw |-> SetPassword(tokens[3]), tags |-> {PUBLIC_TAG}]
    ELSE [abort |-> FALSE, pw |-> SetPassword(""), tags |-> acc.tags]

\* the record an update command computes from the account it retrieved
UpdateLocal(v, op, acc, tokens) ==
    CASE op = "setpassword" ->
           [abort |-> FALSE, pw |-> SetPassword(tokens[3]), tags |-> acc.tags]
      [] op = "grant" ->
           [abort |-> FALSE, pw |-> acc.pw, tags |-> GrantLoop(acc.tags, Drop(tokens, 2))]
      [] op = "revoke" ->
           [abort |-> RevokeResult(v, acc.tags, Drop(tokens, 2)).abort, pw |-> acc.pw,
            tags |-> RevokeResult(v, acc.tags, Drop(tokens, 2)).tags]

\* setpassword / grant / revoke up to and including RetrieveAccount
UpdateRead(s, op) ==
    /\ Dispatched(s, op)
    /\ LET v == cur.variant
           tokens == cur.tokens
       IN IF ~UpdateArityOK(op, tokens)
          THEN Done(s, ArityOut(v), <<>>, FALSE, FALSE)
          ELSE \E outcome \in GetOutcomes :
                 LET u == tokens[2]
                     acc == accStore[u]
                     calls == <<<<"get", u>>>>
                     new == UpdateLocal(v, op, acc, tokens)
                 IN IF outcome = "err"
                    THEN Done(s, <<storeError>>, calls, FALSE, TRUE)
                    ELSE IF acc.rev = 0
                    THEN Done(s, writeError(notFound), calls, FALSE, FALSE)
                    ELSE IF new.abort
                    THEN Done(s, <<RevokeMsg(v)>>, calls, FALSE, FALSE)
                    ELSE Goto(s, "upsertAcc",
                              [cmd |-> tokens[1], key |-> u,
                               calls |-> calls, rrev |-> acc.rev,
                               acc |-> [pw |-> new.pw, tags |-> new.tags]])
    /\ UNCHANGED <<accStore, tagStore, rev>>

Setpassword(s) == UpdateRead(s, "setpassword")
Grant(s) == UpdateRead(s, "grant")
Revoke(s) == UpdateRead(s, "revoke")

\* an update that writes its record whatever version the key now has
UpsertAccUnconditional(s) ==
    /\ Running(s, "upsertAcc")
    /\ \E outcome \in PutOutcomes :
         LET l == loc[s]
             u == l.key
             success == outcome # "err"
         IN /\ PutAccount(u, l.acc, accStore[u].rev, outcome)
            /\ Done(s, UpsertOut(txFail, success, PutErr(outcome)),
                    Append(l.calls, <<"put", u>>), success, PutErr(outcome))
    /\ UNCHANGED tagStore

\* the UpsertAccountAtomically call that ends setpassword / grant / revoke
UpsertAcc(s) ==
    /\ Running(s, "upsertAcc")
    /\ \E outcome \in PutOutcomes :
         LET l == loc[s]
             u == l.key
             success == PutCommitted(accStore[u], l.rrev, outcome)
         IN /\ PutAccount(u, l.acc, l.rrev, outcome)
            /\ Done(s, UpsertOut(txFail, success, PutErr(outcome)),
                    Append(l.calls, <<"put", u>>), success, PutErr(outcome))
    /\ UNCHANGED tagStore

\* DeleteAccount(username): deleting an absent key is not an error
DeleteAccount(u) ==
    IF accStore[u].rev # 0
    THEN /\ rev < MaxRev
         /\ accStore' = [accStore EXCEPT ![u] = NoAcc]
         /\ rev' = rev + 1
    ELSE UNCHANGED <<accStore, rev>>

\* rmuser that looks the account up first and reports an absent one
RmuserStepChecksFirst(s) ==
    /\ Running(s, "rmuser")
    /\ \E outcome \in GetOutcomes :
         LET l == loc[s]
             u == Head(l.names)
             calls == Append(l.calls, <<"delete", u>>)
         IN IF outcome = "err"
            THEN /\ Done(s, <<storeError>>, calls, FALSE, TRUE)
                 /\ UNCHANGED <<accStore, rev>>
            ELSE IF accStore[u].rev = 0
            THEN /\ Done(s, writeError(notFound), l.calls, FALSE, FALSE)
                 /\ UNCHANGED <<accStore, rev>>
            ELSE /\ DeleteAccount(u)
                 /\ IF Tail(l.names) = <<>>
                    THEN Done(s, <<>>, calls, FALSE, FALSE)
                    ELSE /\ loc' = [loc EXCEPT ![s] =
                                      [l EXCEPT !.names = Tail(l.names), !.calls = calls]]
                         /\ UNCHANGED <<pc, cur, out>>
    /\ UNCHANGED tagStore

\* rmuser that reports a failed delete and goes on to the next username
RmuserStepContinuesOnError(s) ==
    /\ Running(s, "rmuser")
    /\ \E outcome \in GetOutcomes :
         LET l == loc[s]
             u == Head(l.names)
             calls == Append(l.calls, <<"delete", u>>)
         IN /\ IF outcome = "err"
               THEN UNCHANGED <<accStore, rev>>
               ELSE DeleteAccount(u)
            /\ IF Tail(l.names) = <<>>
               THEN Done(s, IF outcome = "err" THEN <<storeError>> ELSE <<>>,
                         calls, FALSE, outcome = "err")
               ELSE /\ loc' = [loc EXCEPT ![s] =
                                 [l EXCEPT !.names = Tail(l.names), !.calls = calls]]
                    /\ UNCHANGED <<pc, cur, out>>
    /\ UNCHANGED tagStore

RmuserArityOK(v, tokens) ==
    IF v = "v1" THEN Len(tokens) = 2 ELSE Len(tokens) >= 2

\* rmuser: the arity check
Rmuser(s) ==
    /\ Dispatched(s, "rmuser")
    /\ LET v == cur.variant
           tokens == cur.tokens
       IN IF ~RmuserArityOK(v, tokens)
          THEN Done(s, ArityOut(v), <<>>, FALSE, FALSE)
          ELSE Goto(s, "rmuser",
                    [cmd |-> tokens[1], names |-> Tail(tokens), calls |-> <<>>])
    /\ UNCHANGED <<accStore, tagStore, rev>>

\* rmuser: one DeleteAccount call of the loop over tokens[1:]
RmuserStep(s) ==
    /\ Running(s, "rmuser")
    /\ \E outcome \in GetOutcomes :
         LET l == loc[s]
             u == Head(l.names)
             calls == Append(l.calls, <<"delete", u>>)
         IN IF outcome = "err"
            THEN /\ Done(s, <<storeError>>, calls, FALSE, TRUE)
                 /\ UNCHANGED <<accStore, rev>>
            ELSE /\ DeleteAccount(u)
                 /\ IF Tail(l.names) = <<>>
                    THEN Done(s, <<>>, calls, FALSE, FALSE)
                    ELSE /\ loc' = [loc EXCEPT ![s] =
                                      [l EXCEPT !.names = Tail(l.names), !.calls = calls]]
                         /\ UNCHANGED <<pc, cur, out>>
    /\ UNCHANGED tagStore

\* -------------------------------------------- command tables: tag definitions
\* UpsertTagDefAtomically(tagdef): one conditional write of the whole record
PutTagDef(tag, pfx, expected, outcome) ==
    IF PutCommitted(tagStore[tag], expected, outcome)
    THEN /\ rev < MaxRev
         /\ tagStore' = [tagStore EXCEPT ![tag] = [pfx |-> pfx, rev |-> rev + 1]]
         /\ rev' = rev + 1
    ELSE UNCHANGED <<tagStore, rev>>

\* DeleteTagDef(tagname): deleting an absent key is not an error
DeleteTagDef(tag) ==
    IF tagStore[tag].rev # 0
    THEN /\ rev < MaxRev
         /\ tagStore' = [tagStore EXCEPT ![tag] = NoTagDef]
         /\ rev' = rev + 1
    ELSE UNCHANGED <<tagStore, rev>>

\* deftag: pfxSet := sliceToSet(tokens[2:])
DeftagPrefixes(tokens) == sliceToSet(Drop(tokens, 2))

\* addprefix that stores the prefixes it was given in place of the stored ones
AddprefixLoopReplaces(pfxs, toks) == sliceToSet(toks)

\* addprefix: for _, pfx := range tokens[2:] { add if absent }
RECURSIVE AddprefixLoop(_, _)
AddprefixLoop(pfxs, toks) ==
    IF toks = <<>> THEN pfxs
    ELSE AddprefixLoop(IF Head(toks) \notin pfxs THEN pfxs \cup {Head(toks)} ELSE pfxs,
                       Tail(toks))

\* rmprefix without the check on the only prefix left
RECURSIVE RmprefixLoopNoGuard(_, _)
RmprefixLoopNoGuard(pfxs, toks) ==
    IF toks = <<>> THEN [abort |-> FALSE, pfx |-> pfxs]
    ELSE RmprefixLoopNoGuard(pfxs \ {Head(toks)}, Tail(toks))

\* rmprefix that, at the only prefix left, stops and writes what it removed
RECURSIVE RmprefixLoopWritesPartial(_, _)
RmprefixLoopWritesPartial(pfxs, toks) ==
    IF toks = <<>> THEN [abort |-> FALSE, pfx |-> pfxs]
    ELSE IF Head(toks) \in pfxs
    THEN IF Cardinality(pfxs) = 1
         THEN [abort |-> FALSE, pfx |-> pfxs]
         ELSE RmprefixLoopWritesPartial(pfxs \ {Head(toks)}, Tail(toks))
    ELSE RmprefixLoopWritesPartial(pfxs, Tail(toks))

\* rmprefix: removing the only prefix left ends the handler
RECURSIVE RmprefixLoop(_, _)
RmprefixLoop(pfxs, toks) ==
    IF toks = <<>> THEN [abort |-> FALSE, pfx |-> pfxs]
    ELSE IF Head(toks) \in pfxs
    THEN IF Cardinality(pfxs) = 1
         THEN [abort |-> TRUE, pfx |-> pfxs]
         ELSE RmprefixLoop(pfxs \ {Head(toks)}, Tail(toks))
    ELSE RmprefixLoop(pfxs, Tail(toks))

\* handlers without the guard on the reserved tag
IsAllTagNever(tag) == FALSE

\* the guard on the reserved tag that opens deftag, addprefix and rmprefix
IsAllTag(tag) == tag = ALL_TAG

DeftagTokens == KeyedTokens("deftag", CmdTags, Prefixes)
AddprefixTokens == KeyedTokens("addprefix", CmdTags, Prefixes)
RmprefixTokens == KeyedTokens("rmprefix", CmdTags, Prefixes)
UndeftagTokens == {<<"undeftag">> \o a : a \in SeqsUpTo(CmdTags, MaxArgs)}

TagCommands ==
    DeftagTokens \cup AddprefixTokens \cup RmprefixTokens \cup UndeftagTokens

IssueTag(s) ==
    /\ CanIssue(s)
    /\ \E v \in TagVariants : \E tokens \in TagCommands : Issue(s, v, tokens)

\* deftag tag pathprefix1 [pathprefix2] ...
Deftag(s) ==
    /\ Dispatched(s, "deftag")
    /\ LET v == cur.variant
           tokens == cur.tokens
       IN IF Len(tokens) < 3
          THEN /\ Done(s, ArityOut(v), <<>>, FALSE, FALSE)
               /\ UNCHANGED <<tagStore, rev>>
          ELSE IF IsAllTag(tokens[2])
          THEN /\ Done(s, <<alreadyExists>>, <<>>, FALSE, FALSE)
               /\ UNCHANGED <<tagStore, rev>>
          ELSE \E outcome \in PutOutcomes :
                 LET tag == tokens[2]
                     success == PutCommitted(tagStore[tag], 0, outcome)
                 IN /\ PutTagDef(tag, DeftagPrefixes(tokens), 0, outcome)
                    /\ Done(s, UpsertOut(alreadyExists, success, PutErr(outcome)),
                            <<<<"put", tag>>>>, success, PutErr(outcome))
    /\ UNCHANGED accStore

\* the prefix set addprefix / rmprefix computes from the definition it retrieved
PrefixLocal(op, pfxs, tokens) ==
    IF op = "addprefix"
    THEN [abort |-> FALSE, pfx |-> AddprefixLoop(pfxs, Drop(tokens, 2))]
    ELSE RmprefixLoop(pfxs, Drop(tokens, 2))

\* addprefix / rmprefix up to and including RetrieveTagDef
PrefixRead(s, op) ==
    /\ Dispatched(s, op)
    /\ LET v == cur.variant
           tokens == cur.tokens
       IN IF Len(tokens) < 3
          THEN Done(s, ArityOut(v), <<>>, FALSE, FALSE)
          ELSE IF IsAllTag(tokens[2])
          THEN Done(s, <<cannotModifyAll>>, <<>>, FALSE, FALSE)
          ELSE \E outcome \in GetOutcomes :
                 LET tag == tokens[2]
                     def == tagStore[tag]
                     calls == <<<<"get", tag>>>>
                 IN IF outcome = "err"
                    THEN Done(s, <<storeError>>, calls, FALSE, TRUE)
                    ELSE IF def.rev = 0
                    THEN Done(s, writeError(notFound), calls, FALSE, FALSE)
                    ELSE IF PrefixLocal(op, def.pfx, tokens).abort
                    THEN Done(s, <<needOnePrefix>>, calls, FALSE, FALSE)
                    ELSE Goto(s, "upsertTag",
                              [cmd |-> tokens[1], key |-> tag,
                               calls |-> calls, rrev |-> def.rev,
                               pfx |-> PrefixLocal(op, def.pfx, tokens).pfx])
    /\ UNCHANGED <<accStore, tagStore, rev>>

Addprefix(s) == PrefixRead(s, "addprefix")
Rmprefix(s) == PrefixRead(s, "rmprefix")

\* addprefix / rmprefix that reads the definition again and resubmits its
\* prefix set when the conditional write is refused
UpsertTagRetries(s) ==
    /\ Running(s, "upsertTag")
    /\ \E outcome \in PutOutcomes :
         LET l == loc[s]
             success == PutCommitted(tagStore[l.key], l.rrev, outcome)
             calls == Append(l.calls, <<"put", l.key>>)
         IN /\ PutTagDef(l.key, l.pfx, l.rrev, outcome)
            /\ IF success \/ PutErr(outcome) \/ tagStore[l.key].rev = 0
               THEN Done(s, UpsertOut(txFail, success, PutErr(outcome)),
                         calls, success, PutErr(outcome))
               ELSE Goto(s, "upsertTag",
                         [l EXCEPT !.rrev = tagStore[l.key].rev,
                                   !.calls = Append(calls, <<"get", l.key>>)])
    /\ UNCHANGED accStore

\* the UpsertTagDefAtomically call that ends addprefix / rmprefix
UpsertTag(s) ==
    /\ Running(s, "upsertTag")
    /\ \E outcome \in PutOutcomes :
         LET l == loc[s]
             success == PutCommitted(tagStore[l.key], l.rrev, outcome)
         IN /\ PutTagDef(l.key, l.pfx, l.rrev, outcome)
            /\ Done(s, UpsertOut(txFail, success, PutErr(outcome)),
                    Append(l.calls, <<"put", l.key>>), success, PutErr(outcome))
    /\ UNCHANGED accStore

\* undeftag: the arity check
Undeftag(s) ==
    /\ Dispatched(s, "undeftag")
    /\ LET v == cur.variant
           tokens == cur.tokens
       IN IF Len(tokens) < 2
          THEN Done(s, ArityOut(v), <<>>, FALSE, FALSE)
          ELSE Goto(s, "undeftag",
                    [variant |-> v, cmd |-> tokens[1], names |-> Tail(tokens),
                     calls |-> <<>>, msgs |-> <<>>])
    /\ UNCHANGED <<accStore, tagStore, rev>>

\* what undeftag does with a name equal to ALL_TAG: the admincli module
\* returns after the message, the REPL goes on to DeleteTagDef
UndeftagStopsAtAll(v) == v = "cli"

\* undeftag: one pass of the loop over tokens[1:]
UndeftagStep(s) ==
    /\ Running(s, "undeftag")
    /\ LET l == loc[s]
           tag == Head(l.names)
           msgs == IF tag = ALL_TAG THEN Append(l.msgs, cannotDeleteAll) ELSE l.msgs
           calls == Append(l.calls, <<"delete", tag>>)
       IN IF tag = ALL_TAG /\ UndeftagStopsAtAll(l.variant)
          THEN /\ Done(s, msgs, l.calls, FALSE, FALSE)
               /\ UNCHANGED <<tagStore, rev>>
          ELSE \E outcome \in GetOutcomes :
                 IF outcome = "err"
                 THEN /\ Done(s, Append(msgs, storeError), calls, FALSE, TRUE)
                      /\ UNCHANGED <<tagStore, rev>>
                 ELSE /\ DeleteTagDef(tag)
                      /\ IF Tail(l.names) = <<>>
                         THEN Done(s, msgs, calls, FALSE, FALSE)
                         ELSE /\ loc' = [loc EXCEPT ![s] =
                                           [l EXCEPT !.names = Tail(l.names),
                                                     !.calls = calls, !.msgs = msgs]]
                              /\ UNCHANGED <<pc, cur, out>>
    /\ UNCHANGED accStore

\* ------------------------------------------------------------ specification
Init ==
    /\ accStore = [u \in Users |-> NoAcc]
    /\ tagStore = [t \in TagNames |-> NoTagDef]
    /\ rev = 0
    /\ pc = [s \in Sessions |-> "idle"]
    /\ loc = [s \in Sessions |-> Idle]
    /\ cur = NoCmd
    /\ out = NoOut

NextAcc ==
    \E s \in Sessions :
       \/ IssueAcc(s)
       \/ Prompt(s)
       \/ Adduser(s)
       \/ Setpassword(s)
       \/ Grant(s)
       \/ Revoke(s)
       \/ UpsertAcc(s)
       \/ Rmuser(s)
       \/ RmuserStep(s)

SpecAcc == Init /\ [][NextAcc]_vars

NextTag ==
    \E s \in Sessions :
       \/ IssueTag(s)
       \/ Prompt(s)
       \/ Deftag(s)
       \/ Addprefix(s)
       \/ Rmprefix(s)
       \/ UpsertTag(s)
       \/ Undeftag(s)
       \/ UndeftagStep(s)

SpecTag == Init /\ [][NextTag]_vars

\* ---------------------------------------------------------------- race
\* Two sessions update one record that an earlier adduser or deftag created.
InitRace ==
    /\ \E kind \in {"account", "tagdef"} :
         /\ accStore = [u \in Users |->
                          IF kind = "account" /\ u = "alice"
                          THEN [pw |-> SetPassword("pw1"),
                                tags |-> {PUBLIC_TAG, "teamA"}, rev |-> 1]
                          ELSE NoAcc]
         /\ tagStore = [t \in TagNames |->
                          IF kind = "tagdef" /\ t = "teamA"
                          THEN [pfx |-> {"/bldg1/", "/bldg2/"}, rev |-> 1]
                          ELSE NoTagDef]
    /\ rev = 1
    /\ pc = [s \in Sessions |-> "idle"]
    /\ loc = [s \in Sessions |-> Idle]
    /\ cur = NoCmd
    /\ out = NoOut

UpdateCommands(v) ==
    IF v = "v1" THEN SetpasswordTokens \cup AddtagsTokens \cup RmtagsTokens
    ELSE SetpasswordTokens \cup GrantTokens \cup RevokeTokens
         \cup AddprefixTokens \cup RmprefixTokens

IssueUpdate(s) ==
    /\ CanIssue(s)
    /\ \E v \in Variants : \E tokens \in UpdateCommands(v) : Issue(s, v, tokens)

NextRace ==
    \E s \in Sessions :
       \/ IssueUpdate(s)
       \/ Prompt(s)
       \/ Setpassword(s)
       \/ Grant(s)
       \/ Revoke(s)
       \/ UpsertAcc(s)
       \/ Addprefix(s)
       \/ Rmprefix(s)
       \/ UpsertTag(s)

SpecRace == InitRace /\ [][NextRace]_vars

\* ------------------------------------------------------------------ ls
\* strings as character sequences, for strings.HasPrefix
Chars(str) ==
    CASE str = "" -> <<>>
      [] str = "al" -> <<"a", "l">>
      [] str = "bo" -> <<"b", "o">>
      [] str = "alice" -> <<"a", "l", "i", "c", "e">>
      [] str = "bob" -> <<"b", "o", "b">>
      [] str = "albert" -> <<"a", "l", "b", "e", "r", "t">>
      [] str = "a" -> <<"a">>
      [] str = "te" -> <<"t", "e">>
      [] str = "all" -> <<"a", "l", "l">>
      [] str = "public" -> <<"p", "u", "b", "l", "i", "c">>
      [] str = "teamA" -> <<"t", "e", "a", "m", "A">>
      [] str = "teamB" -> <<"t", "e", "a", "m", "B">>

HasPrefixOfAnything(str, prefix) == TRUE

HasPrefix(str, prefix) ==
    /\ Len(Chars(prefix)) <= Len(Chars(str))
    /\ SubSeq(Chars(str), 1, Len(Chars(prefix))) = Chars(prefix)

\* an account whose stored tag set decodes to nil
NilTags == {"<nil>"}
\* a tag definition whose stored prefix set decodes to nil
NilPrefixes == {"<nil>"}
RangeOverNothing(pfxs) == {}

\* for pfx := range tagPfxSet: a nil map has nothing to range over
RangeOver(pfxs) == IF pfxs = NilPrefixes THEN {} ELSE pfxs

LsPrefixes == {"al", "bo"}
LsTokens == {<<"ls">>} \cup {<<"ls", p>> : p \in LsPrefixes}
            \cup {<<"ls", p, q>> : p \in LsPrefixes, q \in LsPrefixes}

\* the keys of the account store in the order a range read returns them
UserOrder == <<"albert", "alice", "bob">>

\* RetrieveMultipleAccounts(prefix): the accounts whose username starts with it
RetrieveMultipleAccounts(prefix) ==
    LET Match(u) == accStore[u].rev # 0 /\ HasPrefix(u, prefix)
        hits == SelectSeq(UserOrder, Match)
    IN [i \in 1..Len(hits) |-> [user |-> hits[i], tags |-> accStore[hits[i]].tags]]

\* tagcache := make(map[string]map[string]struct{})
EmptyCache == [t \in {} |-> {}]

\* ls never stores the prefixes it looked up into tagcache
CacheAfterLookup(tagcache, tag, pfxs) == tagcache

\* the cache the next account starts with: made once per call (admincli
\* module) or once per account (REPL v2)
CacheForNextAccount(v, tagcache) == IF v = "cli" THEN tagcache ELSE EmptyCache

LsLine(user, prefixes) == [kind |-> "line", user |-> user, prefixes |-> prefixes]
\* a listing that prints a record that does not decode like any other
LsCorruptUntagged(user) == [kind |-> "line", user |-> user, prefixes |-> {}]

LsCorrupt(user) == [kind |-> "corrupt", user |-> user]
LsLookupFailedUnnamed(tag) == [kind |-> "lookupFailed", tag |-> ""]

LsLookupFailed(tag) == [kind |-> "lookupFailed", tag |-> tag]

IssueLs(s) ==
    /\ CanIssue(s)
    /\ \E v \in TagVariants : \E tokens \in LsTokens : Issue(s, v, tokens)

\* the locals of ls when it turns to the accounts accs
LsLocals(l, accs) ==
    [l EXCEPT !.accs = accs,
              !.todo = IF accs = <<>> THEN {} ELSE Head(accs).tags,
              !.prefixes = {},
              !.tagcache = CacheForNextAccount(l.variant, l.tagcache)]

\* ls [prefix]: the arity check and RetrieveMultipleAccounts
Ls(s) ==
    /\ Dispatched(s, "ls")
    /\ LET v == cur.variant
           tokens == cur.tokens
           prefix == IF Len(tokens) = 2 THEN tokens[2] ELSE ""
           calls == <<<<"list", prefix>>>>
           accs == RetrieveMultipleAccounts(prefix)
       IN IF Len(tokens) # 1 /\ Len(tokens) # 2
          THEN Done(s, ArityOut(v), <<>>, FALSE, FALSE)
          ELSE \E outcome \in GetOutcomes :
                 IF outcome = "err"
                 THEN Done(s, <<storeError>>, calls, FALSE, TRUE)
                 ELSE IF accs = <<>>
                 THEN Done(s, <<>>, calls, FALSE, FALSE)
                 ELSE Goto(s, "ls",
                           [cmd |-> tokens[1], variant |-> v, accs |-> accs,
                            todo |-> Head(accs).tags, prefixes |-> {},
                            tagcache |-> EmptyCache, lines |-> <<>>,
                            calls |-> calls])
    /\ UNCHANGED <<accStore, tagStore, rev>>

\* ls has the line of the account it is at: print it, go to the next account
LsEmit(s, l, line, calls) ==
    IF Tail(l.accs) = <<>>
    THEN Done(s, Append(l.lines, line), calls, FALSE, FALSE)
    ELSE /\ loc' = [loc EXCEPT ![s] =
                      [LsLocals(l, Tail(l.accs)) EXCEPT
                          !.lines = Append(l.lines, line), !.calls = calls]]
         /\ UNCHANGED <<pc, cur, out>>

\* ls: one pass of the loop over the tags of the account it is at, the tag
\* being any of those the range over the map has not produced yet
LsStep(s) ==
    /\ Running(s, "ls")
    /\ LET l == loc[s]
           acc == Head(l.accs)
       IN IF acc.tags = NilTags
          THEN LsEmit(s, l, LsCorrupt(acc.user), l.calls)
          ELSE IF l.todo = {}
          THEN LsEmit(s, l, LsLine(acc.user, l.prefixes), l.calls)
          ELSE \E tag \in l.todo :
                 IF tag = ALL_TAG
                 THEN LsEmit(s, l, LsLine(acc.user, {AllTagSymbol}), l.calls)
                 ELSE IF tag \in DOMAIN l.tagcache
                 THEN LET prefixes == l.prefixes \cup l.tagcache[tag]
                      IN IF l.todo = {tag}
                         THEN LsEmit(s, l, LsLine(acc.user, prefixes), l.calls)
                         ELSE /\ loc' = [loc EXCEPT ![s] =
                                           [l EXCEPT !.todo = l.todo \ {tag},
                                                     !.prefixes = prefixes]]
                              /\ UNCHANGED <<pc, cur, out>>
                 ELSE \E outcome \in GetOutcomes :
                        LET def == tagStore[tag]
                            calls == Append(l.calls, <<"get", tag>>)
                            failed == Append(l.lines, LsLookupFailed(tag))
                        IN IF outcome = "err"
                           THEN Done(s, failed, calls, FALSE, TRUE)
                           ELSE IF def.rev = 0
                           THEN Done(s, failed, calls, FALSE, FALSE)
                           ELSE IF l.todo = {tag}
                           THEN LsEmit(s, l, LsLine(acc.user, l.prefixes \cup RangeOver(def.pfx)),
                                       calls)
                           ELSE /\ loc' = [loc EXCEPT ![s] =
                                     [l EXCEPT
                                        !.todo = l.todo \ {tag},
                                        !.prefixes = l.prefixes \cup RangeOver(def.pfx),
                                        !.tagcache = CacheAfterLookup(l.tagcache, tag,
                                                                      def.pfx),
                                        !.calls = calls]]
                                /\ UNCHANGED <<pc, cur, out>>
    /\ UNCHANGED <<accStore, tagStore, rev>>

\* the stores ls is run on: what earlier commands left, bob's record possibly
\* one that no longer decodes
LsTagSets == {T \cup {PUBLIC_TAG} : T \in SUBSET {"teamA", ALL_TAG}}
LsBobTagSets == {{PUBLIC_TAG}, NilTags}
LsTeamAPrefixes == {{"/bldg2/"}, {"/bldg1/", "/bldg3/"}}
Count(b) == IF b THEN 1 ELSE 0

InitLs ==
    /\ \E a \in BOOLEAN, b \in BOOLEAN, p \in BOOLEAN, d \in BOOLEAN :
       \E ta \in LsTagSets, tb \in LsBobTagSets, pa \in LsTeamAPrefixes :
         LET ra == Count(a)
             rb == ra + Count(b)
             rp == rb + Count(p)
             rd == rp + Count(d)
         IN /\ accStore = [u \in Users |->
                  IF u = "alice" /\ a
                  THEN [pw |-> SetPassword("pw1"), tags |-> ta, rev |-> ra]
                  ELSE IF u = "bob" /\ b
                  THEN [pw |-> SetPassword("pw2"), tags |-> tb, rev |-> rb]
                  ELSE NoAcc]
            /\ tagStore = [t \in TagNames |->
                  IF t = PUBLIC_TAG /\ p
                  THEN [pfx |-> {"/bldg1/"}, rev |-> rp]
                  ELSE IF t = "teamA" /\ d
                  THEN [pfx |-> pa, rev |-> rd]
                  ELSE NoTagDef]
            /\ rev = rd
    /\ pc = [s \in Sessions |-> "idle"]
    /\ loc = [s \in Sessions |-> Idle]
    /\ cur = NoCmd
    /\ out = NoOut

NextLs ==
    \E s \in Sessions :
       \/ IssueLs(s)
       \/ Prompt(s)
       \/ Ls(s)
       \/ LsStep(s)

SpecLs == InitLs /\ [][NextLs]_vars

\* -------------------------------------------------------------- deletes
TagPrefixes == {"te", "a"}

\* the prefix deletes of the store: every record under the prefix in one
\* request, which answers the number it removed
MatchingAccounts(prefix) == {u \in Users : accStore[u].rev # 0 /\ HasPrefix(u, prefix)}
MatchingTagDefs(prefix) == {g \in TagNames : tagStore[g].rev # 0 /\ HasPrefix(g, prefix)}

DeleteMultipleAccounts(prefix) ==
    IF MatchingAccounts(prefix) # {}
    THEN /\ rev < MaxRev
         /\ accStore' = [u \in Users |->
                           IF u \in MatchingAccounts(prefix) THEN NoAcc ELSE accStore[u]]
         /\ rev' = rev + 1
    ELSE UNCHANGED <<accStore, rev>>

DeleteMultipleTagDefs(prefix) ==
    IF MatchingTagDefs(prefix) # {}
    THEN /\ rev < MaxRev
         /\ tagStore' = [g \in TagNames |->
                           IF g \in MatchingTagDefs(prefix) THEN NoTagDef ELSE tagStore[g]]
         /\ rev' = rev + 1
    ELSE UNCHANGED <<tagStore, rev>>

\* a handler that always prints the singular line
DeletedLineSingular(n, noun) == <<"Deleted", 1, noun>>

\* "Deleted 1 account" / "Deleted %v accounts"
DeletedLine(n, noun) == <<"Deleted", n, noun>>

RmusersTokens ==
    {<<"rmusers">>} \cup {<<"rmusers", p>> : p \in LsPrefixes}
    \cup {<<"rmusers", p, q>> : p \in LsPrefixes, q \in LsPrefixes}
UndeftagsTokens ==
    {<<"undeftags">>} \cup {<<"undeftags", p>> : p \in TagPrefixes}
    \cup {<<"undeftags", p, q>> : p \in TagPrefixes, q \in TagPrefixes}

\* rmuser over two different accounts
DeleteUsers == {"alice", "bob"}
RmuserManyTokens ==
    {<<"rmuser", p[1], p[2]>> :
        p \in {q \in DeleteUsers \X DeleteUsers : q[1] # q[2]}}

DeleteAccCommands == RmuserTokens \cup RmuserManyTokens \cup RmusersTokens
DeleteTagCommands == UndeftagTokens \cup UndeftagsTokens

IssueDelete(s) ==
    /\ CanIssue(s)
    /\ \/ \E v \in Variants : \E tokens \in DeleteAccCommands : Issue(s, v, tokens)
       \/ \E v \in TagVariants : \E tokens \in DeleteTagCommands : Issue(s, v, tokens)

\* rmusers usernameprefix
Rmusers(s) ==
    /\ Dispatched(s, "rmusers")
    /\ LET v == cur.variant
           tokens == cur.tokens
       IN IF Len(tokens) # 2
          THEN /\ Done(s, ArityOut(v), <<>>, FALSE, FALSE)
               /\ UNCHANGED <<accStore, rev>>
          ELSE \E outcome \in GetOutcomes :
                 LET calls == <<<<"deleteRange", tokens[2]>>>>
                     n == Cardinality(MatchingAccounts(tokens[2]))
                 IN IF outcome = "err"
                    THEN /\ Done(s, <<DeletedLine(0, "accounts")>> \o writeError(storeError),
                                 calls, FALSE, TRUE)
                         /\ UNCHANGED <<accStore, rev>>
                    ELSE /\ DeleteMultipleAccounts(tokens[2])
                         /\ Done(s, <<DeletedLine(n, "accounts")>>, calls, FALSE, FALSE)
    /\ UNCHANGED tagStore

\* undeftags prefix
Undeftags(s) ==
    /\ Dispatched(s, "undeftags")
    /\ LET v == cur.variant
           tokens == cur.tokens
       IN IF Len(tokens) # 2
          THEN /\ Done(s, ArityOut(v), <<>>, FALSE, FALSE)
               /\ UNCHANGED <<tagStore, rev>>
          ELSE \E outcome \in GetOutcomes :
                 LET calls == <<<<"deleteRange", tokens[2]>>>>
                     n == Cardinality(MatchingTagDefs(tokens[2]))
                 IN IF outcome = "err"
                    THEN /\ Done(s, <<DeletedLine(0, "tag definitions")>>
                                       \o writeError(storeError),
                                 calls, FALSE, TRUE)
                         /\ UNCHANGED <<tagStore, rev>>
                    ELSE /\ DeleteMultipleTagDefs(tokens[2])
                         /\ Done(s, <<DeletedLine(n, "tag definitions")>>,
                                 calls, FALSE, FALSE)
    /\ UNCHANGED accStore

\* the stores the deletes are run on: the records that earlier adduser and
\* deftag commands left, each written at its own version
StoredKeys == <<"albert", "alice", "bob", PUBLIC_TAG, "teamA", "teamB">>
VersionIn(K, k) == Cardinality({j \in K : j <= k})

InitDelete ==
    /\ \E K \in SUBSET (1..Len(StoredKeys)) :
         /\ Cardinality(K) < MaxRev
         /\ accStore = [u \in Users |->
               IF \E k \in K : StoredKeys[k] = u
               THEN [pw |-> SetPassword("pw1"), tags |-> {PUBLIC_TAG},
                     rev |-> VersionIn(K, CHOOSE k \in K : StoredKeys[k] = u)]
               ELSE NoAcc]
         /\ tagStore = [g \in TagNames |->
               IF \E k \in K : StoredKeys[k] = g
               THEN [pfx |-> {"/bldg1/"},
                     rev |-> VersionIn(K, CHOOSE k \in K : StoredKeys[k] = g)]
               ELSE NoTagDef]
         /\ rev = Cardinality(K)
    /\ pc = [s \in Sessions |-> "idle"]
    /\ loc = [s \in Sessions |-> Idle]
    /\ cur = NoCmd
    /\ out = NoOut

NextDelete ==
    \E s \in Sessions :
       \/ IssueDelete(s)
       \/ Prompt(s)
       \/ Rmuser(s)
       \/ RmuserStep(s)
       \/ Rmusers(s)
       \/ Undeftag(s)
       \/ UndeftagStep(s)
       \/ Undeftags(s)

SpecDelete == InitDelete /\ [][NextDelete]_vars

\* ------------------------------------------------------------- listings
\* a listing that ignores its argument
ListPrefixIgnored(tokens) == ""

\* prefix := ""; if len(tokens) == 2 { prefix = tokens[1] }
ListPrefix(tokens) == IF Len(tokens) = 2 THEN tokens[2] ELSE ""

\* the keys of the tag-definition store in the order a range read returns them
TagOrder == <<ALL_TAG, PUBLIC_TAG, "teamA", "teamB">>

\* RetrieveMultipleTagDefs(prefix): the definitions whose name starts with it
RetrieveMultipleTagDefs(prefix) ==
    LET Match(g) == tagStore[g].rev # 0 /\ HasPrefix(g, prefix)
        hits == SelectSeq(TagOrder, Match)
    IN [i \in 1..Len(hits) |-> [tag |-> hits[i], pfx |-> tagStore[hits[i]].pfx]]

\* the line lsusers prints for an account: its tags, in main.go its name only
LsusersLine(v, acc) ==
    IF acc.tags = NilTags THEN LsCorrupt(acc.user)
    ELSE IF v = "v1" THEN [kind |-> "name", user |-> acc.user]
    ELSE [kind |-> "tags", user |-> acc.user, tags |-> acc.tags]

\* the line lstagdefs prints for a stored definition
LstagdefsLine(def) ==
    IF def.pfx = NilPrefixes THEN LsCorrupt(def.tag)
    ELSE LsLine(def.tag, def.pfx)

LsusersTokens == {<<"lsusers">>} \cup {<<"lsusers", p>> : p \in LsPrefixes}
                 \cup {<<"lsusers", p, q>> : p \in LsPrefixes, q \in LsPrefixes}
LstagdefsTokens == {<<"lstagdefs">>} \cup {<<"lstagdefs", p>> : p \in TagPrefixes}
                   \cup {<<"lstagdefs", p, q>> : p \in TagPrefixes, q \in TagPrefixes}

IssueList(s) ==
    /\ CanIssue(s)
    /\ \/ \E v \in Variants : \E tokens \in LsusersTokens : Issue(s, v, tokens)
       \/ \E v \in TagVariants :
             \E tokens \in LstagdefsTokens \cup LsTokens : Issue(s, v, tokens)

\* lsusers [prefix]
Lsusers(s) ==
    /\ Dispatched(s, "lsusers")
    /\ LET v == cur.variant
           tokens == cur.tokens
           prefix == ListPrefix(tokens)
           calls == <<<<"list", prefix>>>>
           accs == RetrieveMultipleAccounts(prefix)
       IN IF Len(tokens) # 1 /\ Len(tokens) # 2
          THEN Done(s, ArityOut(v), <<>>, FALSE, FALSE)
          ELSE \E outcome \in GetOutcomes :
                 IF outcome = "err"
                 THEN Done(s, writeError(storeError), calls, FALSE, TRUE)
                 ELSE Done(s, [i \in 1..Len(accs) |-> LsusersLine(v, accs[i])],
                           calls, FALSE, FALSE)
    /\ UNCHANGED <<accStore, tagStore, rev>>

\* lstagdefs [tagprefix]
Lstagdefs(s) ==
    /\ Dispatched(s, "lstagdefs")
    /\ LET v == cur.variant
           tokens == cur.tokens
           prefix == ListPrefix(tokens)
           calls == <<<<"list", prefix>>>>
           NotAll(def) == def.tag # ALL_TAG
           tagdefs == SelectSeq(RetrieveMultipleTagDefs(prefix), NotAll)
           first == IF HasPrefix(ALL_TAG, prefix)
                    THEN <<LsLine(ALL_TAG, {AllTagSymbol})>> ELSE <<>>
       IN IF Len(tokens) # 1 /\ Len(tokens) # 2
          THEN Done(s, ArityOut(v), <<>>, FALSE, FALSE)
          ELSE \E outcome \in GetOutcomes :
                 IF outcome = "err"
                 THEN Done(s, writeError(storeError), calls, FALSE, TRUE)
                 ELSE Done(s, first \o [i \in 1..Len(tagdefs) |->
                                          LstagdefsLine(tagdefs[i])],
                           calls, FALSE, FALSE)
    /\ UNCHANGED <<accStore, tagStore, rev>>

\* the stores the listings are run on: the records earlier commands left, some
\* of them holding a payload that no longer decodes
ListAliceTagSets == {{PUBLIC_TAG, "teamA"}, NilTags}
ListBobTagSets == {{PUBLIC_TAG}, NilTags}
ListTeamAPrefixes == {{"/bldg2/"}, NilPrefixes}

InitList ==
    /\ \E K \in SUBSET (1..Len(StoredKeys)) :
       \E ta \in ListAliceTagSets, tb \in ListBobTagSets, pa \in ListTeamAPrefixes :
       \E allStored \in BOOLEAN :
         /\ accStore = [u \in Users |->
               IF \E k \in K : StoredKeys[k] = u
               THEN [pw |-> SetPassword("pw1"),
                     tags |-> IF u = "alice" THEN ta
                              ELSE IF u = "bob" THEN tb ELSE {PUBLIC_TAG},
                     rev |-> VersionIn(K, CHOOSE k \in K : StoredKeys[k] = u)]
               ELSE NoAcc]
         \* the store is shared: another client may have left a record under
         \* the key of the reserved tag, which lstagdefs skips
         /\ tagStore = [g \in TagNames |->
               IF g = ALL_TAG
               THEN IF allStored
                    THEN [pfx |-> {"/bldg1/"}, rev |-> Cardinality(K) + 1]
                    ELSE NoTagDef
               ELSE IF \E k \in K : StoredKeys[k] = g
               THEN [pfx |-> IF g = "teamA" THEN pa
                             ELSE IF g = "teamB" THEN {"/bldg3/"} ELSE {"/bldg1/"},
                     rev |-> VersionIn(K, CHOOSE k \in K : StoredKeys[k] = g)]
               ELSE NoTagDef]
         /\ rev = Cardinality(K) + (IF allStored THEN 1 ELSE 0)
    /\ pc = [s \in Sessions |-> "idle"]
    /\ loc = [s \in Sessions |-> Idle]
    /\ cur = NoCmd
    /\ out = NoOut

NextList ==
    \E s \in Sessions :
       \/ IssueList(s)
       \/ Prompt(s)
       \/ Lsusers(s)
       \/ Lstagdefs(s)
       \/ Ls(s)
       \/ LsStep(s)

SpecList == InitList /\ [][NextList]_vars

\* ------------------------------------------------------------ showtagdef
ShowTags == {"teamA", "teamB", ALL_TAG}
ShowtagdefTokens == {<<"showtagdef">> \o a : a \in SeqsUpTo(ShowTags, MaxArgs)}

IssueShow(s) ==
    /\ CanIssue(s)
    /\ \E v \in TagVariants : \E tokens \in ShowtagdefTokens : Issue(s, v, tokens)

\* showtagdef tag1 [tag2] ...: the arity check
Showtagdef(s) ==
    /\ Dispatched(s, "showtagdef")
    /\ LET v == cur.variant
           tokens == cur.tokens
       IN IF Len(tokens) < 2
          THEN Done(s, ArityOut(v), <<>>, FALSE, FALSE)
          ELSE Goto(s, "showtagdef",
                    [cmd |-> tokens[1], first |-> tokens[2], names |-> Tail(tokens),
                     lines |-> <<>>, calls |-> <<>>])
    /\ UNCHANGED <<accStore, tagStore, rev>>

\* showtagdef: one pass of the loop over tokens[1:]; the test for the reserved
\* tag is `tokens[1] == ALL_TAG`, on the first name, not on the name of the pass
ShowtagdefStep(s) ==
    /\ Running(s, "showtagdef")
    /\ LET l == loc[s]
           tagname == Head(l.names)
           calls == Append(l.calls, <<"get", tagname>>)
       IN IF l.first = ALL_TAG
          THEN Done(s, Append(l.lines, LsLine(ALL_TAG, {AllTagSymbol})), l.calls,
                    FALSE, FALSE)
          ELSE \E outcome \in GetOutcomes :
                 LET def == tagStore[tagname]
                     lines == Append(l.lines, LsLine(tagname, RangeOver(def.pfx)))
                 IN IF outcome = "err"
                    THEN Done(s, l.lines \o writeError(storeError), calls, FALSE, TRUE)
                    ELSE IF def.rev = 0
                    THEN Done(s, l.lines \o writeError(notFound), calls, FALSE, FALSE)
                    ELSE IF Tail(l.names) = <<>>
                    THEN Done(s, lines, calls, FALSE, FALSE)
                    ELSE /\ loc' = [loc EXCEPT ![s] =
                                      [l EXCEPT !.names = Tail(l.names),
                                                !.lines = lines, !.calls = calls]]
                         /\ UNCHANGED <<pc, cur, out>>
    /\ UNCHANGED <<accStore, tagStore, rev>>

\* the stores showtagdef is run on: teamA and teamB defined or not
InitShow ==
    /\ \E a \in BOOLEAN, b \in BOOLEAN :
         /\ tagStore = [g \in TagNames |->
               IF g = "teamA" /\ a
               THEN [pfx |-> {"/bldg1/", "/bldg2/"}, rev |-> 1]
               ELSE IF g = "teamB" /\ b
               THEN [pfx |-> {"/bldg3/"}, rev |-> Count(a) + 1]
               ELSE NoTagDef]
         /\ rev = Count(a) + Count(b)
    /\ accStore = [u \in Users |-> NoAcc]
    /\ pc = [s \in Sessions |-> "idle"]
    /\ loc = [s \in Sessions |-> Idle]
    /\ cur = NoCmd
    /\ out = NoOut

NextShow ==
    \E s \in Sessions :
       \/ IssueShow(s)
       \/ Prompt(s)
       \/ Showtagdef(s)
       \/ ShowtagdefStep(s)

SpecShow == InitShow /\ [][NextShow]_vars

\* ------------------------------------------------- tag-definition writers
\* every command that writes or deletes tag definitions, on the empty store
IssueUndeftags(s) ==
    /\ CanIssue(s)
    /\ \E v \in TagVariants : \E tokens \in UndeftagsTokens : Issue(s, v, tokens)

NextTagDefs ==
    \/ NextTag
    \/ \E s \in Sessions :
          \/ IssueUndeftags(s)
          \/ Undeftags(s)

SpecTagDefs == Init /\ [][NextTagDefs]_vars

\* ------------------------------------------------------- every command
\* one command line per command of table v, taken whole and cut short after
\* each of its tokens, so that every handler is entered below, at and above
\* the token counts it accepts
ArityLines(v) ==
    {<<"adduser", "alice", "pw1", "teamA">>,
     <<"setpassword", "alice", "pw2", "pw1">>,
     <<"rmuser", "alice", "alice">>,
     <<"rmusers", "al", "bo">>,
     <<CmdName(v, "grant"), "alice", "teamB">>,
     <<CmdName(v, "revoke"), "alice", "teamA">>,
     <<"lsusers", "al", "bo">>}
    \cup (IF v \in TagVariants
          THEN {<<"deftag", "teamA", "/bldg1/", "/bldg2/">>,
                <<"undeftag", "teamA">>,
                <<"undeftags", "te", "a">>,
                <<"addprefix", "teamA", "/bldg3/">>,
                <<"rmprefix", "teamA", "/bldg1/">>,
                <<"lstagdefs", "te", "a">>,
                <<"ls", "al", "bo">>}
          ELSE {})

ArityTokens(v) ==
    UNION {{SubSeq(line, 1, n) : n \in 1..Len(line)} : line \in ArityLines(v)}

IssueArity(s) ==
    /\ CanIssue(s)
    /\ \E v \in Variants : \E tokens \in ArityTokens(v) : Issue(s, v, tokens)

NextArity ==
    \E s \in Sessions :
       \/ IssueArity(s)
       \/ Prompt(s)
       \/ Adduser(s)
       \/ Setpassword(s)
       \/ Grant(s)
       \/ Revoke(s)
       \/ UpsertAcc(s)
       \/ Rmuser(s)
       \/ RmuserStep(s)
       \/ Rmusers(s)
       \/ Lsusers(s)
       \/ Deftag(s)
       \/ Addprefix(s)
       \/ Rmprefix(s)
       \/ UpsertTag(s)
       \/ Undeftag(s)
       \/ UndeftagStep(s)
       \/ Undeftags(s)
       \/ Lstagdefs(s)
       \/ Ls(s)
       \/ LsStep(s)

SpecArity == Init /\ [][NextArity]_vars

\* every command, on stores that hold records of another user and another
\* tag than the ones the command lines name
InitFrame ==
    /\ \E b \in BOOLEAN, d \in BOOLEAN :
         /\ accStore = [u \in Users |->
               IF u = "bob" /\ b
               THEN [pw |-> SetPassword("pw2"), tags |-> {PUBLIC_TAG, "teamB"},
                     rev |-> 1]
               ELSE NoAcc]
         /\ tagStore = [g \in TagNames |->
               IF g = "teamB" /\ d
               THEN [pfx |-> {"/bldg3/"}, rev |-> Count(b) + 1]
               ELSE NoTagDef]
         /\ rev = Count(b) + Count(d)
    /\ pc = [s \in Sessions |-> "idle"]
    /\ loc = [s \in Sessions |-> Idle]
    /\ cur = NoCmd
    /\ out = NoOut

SpecFrame == InitFrame /\ [][NextArity]_vars

\* ------------------------------------------------------ MrPlotterCommand
\* the admincli framework enters a command of the module through Run, handing
\* it the writer the command's messages are meant for
nilWriter == "nil"

\* Run(ctx, output, args...): return mpc.exec(ctx, nil, args...) -- the writer
\* exec receives, whatever writer Run was given
Run(output) == nilWriter

\* writeString(output, message): fmt.Fprintln(output, message) reaches the
\* writer it is given, and a nil writer receives nothing
writeString(output, given, msgs) == IF output = given THEN msgs ELSE <<>>

\* ------------------------------------------------------------- properties
\* the step that dispatches the command line just read to handler op
Dispatching(op) ==
    /\ cur # NoCmd
    /\ cur' = NoCmd
    /\ cur.tokens[1] = CmdName(cur.variant, op)

Items(tokens) == sliceToSet(Drop(tokens, 2))

\* C1: every stored account's tag set contains the reserved tag "public",
\* whatever add-user, set-credential, grant, revoke and delete commands the
\* sessions have interleaved.
C1_StoredAccountsHoldPublic ==
    \A u \in Users : accStore[u].rev # 0 => PUBLIC_TAG \in accStore[u].tags

\* a revoke naming "public" has been answered and the account still holds it
C1_Witness ==
    /\ out.cmd = "revoke"
    /\ out.msgs = <<mustHavePublic>>
    /\ accStore["alice"].rev # 0
    /\ accStore["alice"].tags = {PUBLIC_TAG}

\* C2: every stored tag definition has a non-empty prefix set, whatever
\* define-tag, add-prefix, remove-prefix and delete-tag commands the sessions
\* have interleaved.
C2_StoredTagDefsNonEmpty ==
    \A t \in TagNames : tagStore[t].rev # 0 => tagStore[t].pfx # {}

\* two sessions read a two-prefix set and each removed one prefix: the second
\* write was refused and one prefix is left
C2_Witness ==
    /\ out.cmd = "rmprefix"
    /\ out.msgs = <<txFail>>
    /\ tagStore["teamA"].rev = 2
    /\ Cardinality(tagStore["teamA"].pfx) = 1

\* C3: a conditional write of an update commits exactly when the record still
\* has the version the session read; it then stores the session's record and
\* makes stale every other session that read the same version; otherwise it
\* reports the conflict and leaves the store as the winner wrote it.
C3_AccountRace ==
    \A t \in Sessions :
       (pc[t] = "upsertAcc" /\ pc'[t] = "idle" /\ ~out'.err) =>
          LET k == loc[t].key
          IN IF accStore[k].rev = loc[t].rrev
             THEN /\ out'.committed
                  /\ out'.msgs = <<>>
                  /\ accStore' = [accStore EXCEPT ![k] =
                        [pw |-> loc[t].acc.pw, tags |-> loc[t].acc.tags,
                         rev |-> rev + 1]]
                  /\ \A s \in Sessions \ {t} :
                        (pc[s] = "upsertAcc" /\ loc[s].key = k
                            /\ loc[s].rrev = loc[t].rrev)
                        => accStore'[k].rev # loc[s].rrev
             ELSE /\ ~out'.committed
                  /\ out'.msgs = <<txFail>>
                  /\ accStore' = accStore

C3_TagDefRace ==
    \A t \in Sessions :
       (pc[t] = "upsertTag" /\ pc'[t] = "idle" /\ ~out'.err) =>
          LET k == loc[t].key
          IN IF tagStore[k].rev = loc[t].rrev
             THEN /\ out'.committed
                  /\ out'.msgs = <<>>
                  /\ tagStore' = [tagStore EXCEPT ![k] =
                        [pfx |-> loc[t].pfx, rev |-> rev + 1]]
                  /\ \A s \in Sessions \ {t} :
                        (pc[s] = "upsertTag" /\ loc[s].key = k
                            /\ loc[s].rrev = loc[t].rrev)
                        => tagStore'[k].rev # loc[s].rrev
             ELSE /\ ~out'.committed
                  /\ out'.msgs = <<txFail>>
                  /\ tagStore' = tagStore

C3_OneWriterWins == [][C3_AccountRace /\ C3_TagDefRace]_vars

\* both sessions read version 1 of alice's account; a setpassword won and the
\* grant that lost reports the conflict, the store holding the winner's record
C3_Witness ==
    /\ out.cmd = "grant"
    /\ out.msgs = <<txFail>>
    /\ accStore["alice"] = [pw |-> SetPassword("pw2"),
                            tags |-> {PUBLIC_TAG, "teamA"}, rev |-> 2]

\* C5: adduser on a username with no stored account stores, under that
\* username, the credential derived from the password and the tag set
\* toSet(tags) \cup {public} (the store call not failing).
C5_Adduser ==
    (Dispatching("adduser") /\ Len(cur.tokens) >= 3
        /\ accStore[cur.tokens[2]].rev = 0 /\ ~out'.err) =>
       /\ out'.committed
       /\ out'.msgs = <<>>
       /\ accStore' = [accStore EXCEPT ![cur.tokens[2]] =
             [pw |-> SetPassword(cur.tokens[3]),
              tags |-> sliceToSet(Drop(cur.tokens, 3)) \cup {"public"},
              rev |-> rev + 1]]

C5_AdduserStoresTagsAndPublic == [][C5_Adduser]_vars

\* adduser alice pw1 teamA has stored {teamA, public}
C5_Witness ==
    /\ out.cmd = "adduser"
    /\ out.committed
    /\ accStore["alice"].rev # 0
    /\ accStore["alice"].pw = SetPassword("pw1")
    /\ accStore["alice"].tags = {"teamA", "public"}

\* C6: a revoke whose tag list contains "public" is rejected with an
\* explanatory error; it aborts before writing, so no conditional write is
\* issued and the stored account is unchanged.
C6_RevokePublic ==
    (Dispatching("revoke") /\ Len(cur.tokens) >= 3
        /\ PUBLIC_TAG \in Items(cur.tokens)
        /\ accStore[cur.tokens[2]].rev # 0 /\ ~out'.err) =>
       /\ pc'[cur.s] = "idle"
       /\ out'.msgs \in {<<mustHavePublic>>, <<arePublic>>}
       /\ out'.calls = <<<<"get", cur.tokens[2]>>>>
       /\ accStore' = accStore

C6_RevokePublicRejected == [][C6_RevokePublic]_vars

\* C7: revoke(user, T) on an account whose tag set is S goes on to a
\* conditional write of S - (T - {public}), which is what the store holds once
\* that write commits.
C7_RevokeWrite ==
    \A t \in Sessions :
       (pc[t] = "upsertAcc" /\ loc[t].cmd \in {"revoke", "rmtags"}
           /\ pc'[t] = "idle" /\ out'.committed) =>
          /\ accStore'[loc[t].key].tags = loc[t].acc.tags
          /\ accStore'[loc[t].key].pw = loc[t].acc.pw

C7_RevokeComputes ==
    /\ pc'[cur.s] = "upsertAcc"
    /\ loc'[cur.s].key = cur.tokens[2]
    /\ loc'[cur.s].rrev = accStore[cur.tokens[2]].rev
    /\ loc'[cur.s].acc.pw = accStore[cur.tokens[2]].pw
    /\ loc'[cur.s].acc.tags =
          accStore[cur.tokens[2]].tags \ (Items(cur.tokens) \ {PUBLIC_TAG})

C7_RevokeReads ==
    Dispatching("revoke") /\ Len(cur.tokens) >= 3
       /\ accStore[cur.tokens[2]].rev # 0 /\ ~out'.err

C7_RevokeOrAbort ==
    C7_RevokeReads =>
       IF PUBLIC_TAG \in Items(cur.tokens)
       THEN cur.variant # "v1" =>
               /\ pc'[cur.s] = "idle"
               /\ accStore' = accStore
               /\ ~out'.committed
               /\ out'.calls = <<<<"get", cur.tokens[2]>>>>
       ELSE /\ C7_RevokeComputes
            /\ loc'[cur.s].acc.tags =
                  accStore[cur.tokens[2]].tags \ Items(cur.tokens)

C8_Rmprefix ==
    (Dispatching("rmprefix") /\ Len(cur.tokens) >= 3
        /\ cur.tokens[2] # ALL_TAG
        /\ tagStore[cur.tokens[2]].rev # 0
        /\ tagStore[cur.tokens[2]].pfx \subseteq Items(cur.tokens)
        /\ ~out'.err) =>
       /\ pc'[cur.s] = "idle"
       /\ out'.msgs = <<needOnePrefix>>
       /\ out'.calls = <<<<"get", cur.tokens[2]>>>>
       /\ ~out'.committed
       /\ tagStore' = tagStore
       /\ rev' = rev

C8_RmprefixNeverEmpties == [][C8_Rmprefix]_vars

\* an rmprefix naming both prefixes of teamA was rejected after it had removed
\* the first one locally; the definition still has both
C8_Witness ==
    /\ out.cmd = "rmprefix"
    /\ out.msgs = <<needOnePrefix>>
    /\ Cardinality(tagStore["teamA"].pfx) = 2

\* C9: deftag on "all" always answers AlreadyExists, addprefix and rmprefix on
\* "all" always answer that the definition cannot be modified; the rejection
\* precedes any store access and the store is unchanged.
C9_ReservedTag ==
    \A op \in {"deftag", "addprefix", "rmprefix"} :
       (Dispatching(op) /\ Len(cur.tokens) >= 3 /\ cur.tokens[2] = "all") =>
          /\ pc'[cur.s] = "idle"
          /\ out'.msgs = IF op = "deftag" THEN <<alreadyExists>>
                                          ELSE <<cannotModifyAll>>
          /\ out'.calls = <<>>
          /\ ~out'.err
          /\ tagStore' = tagStore
          /\ accStore' = accStore
          /\ rev' = rev

C9_AllTagIsReadOnly == [][C9_ReservedTag]_vars

\* deftag all ... was answered AlreadyExists without a store call
C9_Witness ==
    /\ out.cmd = "deftag"
    /\ out.msgs = <<alreadyExists>>
    /\ out.calls = <<>>

\* C10: undeftag never sends the store a delete request for the key "all".
C10_NoDeleteOfAll ==
    /\ \A i \in DOMAIN out.calls : out.calls[i] # <<"delete", ALL_TAG>>
    /\ \A s \in Sessions :
          pc[s] = "undeftag" =>
             \A i \in DOMAIN loc[s].calls : loc[s].calls[i] # <<"delete", ALL_TAG>>

\* C4: an account whose tag set includes "all" is listed by ls with exactly
\* the universal sentinel as its permissions, whatever its other tags resolve
\* to (tags without a stored definition included) and in whatever order the
\* tag set is iterated.
C4_LsOnAll ==
    \A s \in Sessions :
       (/\ pc[s] = "ls"
        /\ ALL_TAG \in Head(loc[s].accs).tags
        /\ \/ pc'[s] = "idle" /\ ~out'.err
           \/ pc'[s] = "ls" /\ loc'[s].accs # loc[s].accs) =>
          LET lines == IF pc'[s] = "idle" THEN out'.msgs ELSE loc'[s].lines
          IN /\ lines # <<>>
             /\ lines[Len(lines)] = LsLine(Head(loc[s].accs).user, {AllTagSymbol})

C4_AllMeansAllStreams == [][C4_LsOnAll]_vars

\* C11: adduser on a username that already has an account answers
\* AlreadyExists, not the Conflict message of updates, and leaves the stored
\* credential and tag set as they were.
C11_Adduser ==
    (Dispatching("adduser") /\ Len(cur.tokens) >= 3
        /\ accStore[cur.tokens[2]].rev # 0 /\ ~out'.err) =>
       /\ out'.msgs = <<alreadyExists>>
       /\ ~out'.committed
       /\ accStore' = accStore

C11_AdduserAlreadyExists == [][C11_Adduser]_vars

\* C12: deftag on a tag that already has a stored definition answers
\* AlreadyExists and leaves that definition's prefix set as it was.
C12_Deftag ==
    (Dispatching("deftag") /\ Len(cur.tokens) >= 3
        /\ cur.tokens[2] # ALL_TAG
        /\ tagStore[cur.tokens[2]].rev # 0 /\ ~out'.err) =>
       /\ out'.msgs = <<alreadyExists>>
       /\ out'.calls = <<<<"put", cur.tokens[2]>>>>
       /\ ~out'.committed
       /\ tagStore' = tagStore
       /\ rev' = rev

C12_DeftagAlreadyExists == [][C12_Deftag]_vars

\* a deftag of teamA was refused, the stored definition being the one an
\* earlier deftag made
C12_Witness ==
    /\ out.cmd = "deftag"
    /\ out.msgs = <<alreadyExists>>
    /\ out.calls = <<<<"put", "teamA">>>>
    /\ tagStore["teamA"].rev = 1

\* C13: setpassword, grant and revoke on a username without an account, and
\* addprefix and rmprefix on a tag without a definition, answer NotFound after
\* the one read, issue no conditional write and create no record.
C13_AnswersNotFound ==
    /\ pc'[cur.s] = "idle"
    /\ out'.msgs = <<notFound>>
    /\ out'.calls = <<<<"get", cur.tokens[2]>>>>
    /\ ~out'.committed
    /\ accStore' = accStore
    /\ tagStore' = tagStore
    /\ rev' = rev

C13_Update ==
    /\ (Dispatching("setpassword") /\ Len(cur.tokens) = 3
           /\ accStore[cur.tokens[2]].rev = 0 /\ ~out'.err)
       => C13_AnswersNotFound
    /\ \A op \in {"grant", "revoke"} :
          (Dispatching(op) /\ Len(cur.tokens) >= 3
              /\ accStore[cur.tokens[2]].rev = 0 /\ ~out'.err)
          => C13_AnswersNotFound
    /\ \A op \in {"addprefix", "rmprefix"} :
          (Dispatching(op) /\ Len(cur.tokens) >= 3
              /\ cur.tokens[2] # ALL_TAG
              /\ tagStore[cur.tokens[2]].rev = 0 /\ ~out'.err)
          => C13_AnswersNotFound

C13_UpdateOfAbsentIsNotFound == [][C13_Update]_vars

\* a grant on alice, who has no account, was answered NotFound
C13_Witness ==
    /\ out.cmd = "grant"
    /\ out.msgs = <<notFound>>
    /\ out.calls = <<<<"get", "alice">>>>
    /\ accStore["alice"].rev = 0

\* C14: a mutation command makes at most one read and one conditional write;
\* when the write is refused the command reports the conflict and ends, with
\* no second read and no second write.
C14_Upsert ==
    \A t \in Sessions :
       (/\ pc[t] \in {"upsertAcc", "upsertTag"}
        /\ (pc'[t] # pc[t] \/ loc'[t] # loc[t])) =>
          /\ loc[t].calls = <<<<"get", loc[t].key>>>>
          /\ pc'[t] = "idle"
          /\ out'.calls = <<<<"get", loc[t].key>>, <<"put", loc[t].key>>>>
          /\ (~out'.committed /\ ~out'.err) => out'.msgs = <<txFail>>

C14_NoAutomaticRetry == [][C14_Upsert]_vars

\* an rmprefix lost the race: it reports the conflict after one read and one
\* write
C14_Witness ==
    /\ out.cmd = "rmprefix"
    /\ out.msgs = <<txFail>>
    /\ ~out.committed
    /\ out.calls = <<<<"get", "teamA">>, <<"put", "teamA">>>>

\* C15: a grant, revoke, addprefix or rmprefix with several items computes the
\* record with all its items applied and submits it in one conditional write;
\* the stored record only ever changes from what a session read to the whole
\* record that session computed.
C15_Computes ==
    /\ \A op \in {"grant", "revoke"} :
          (Dispatching(op) /\ Len(cur.tokens) >= 3
              /\ accStore[cur.tokens[2]].rev # 0 /\ ~out'.err
              /\ pc'[cur.s] = "upsertAcc") =>
             /\ loc'[cur.s].rrev = accStore[cur.tokens[2]].rev
             /\ loc'[cur.s].acc.tags =
                   IF op = "grant"
                   THEN accStore[cur.tokens[2]].tags \cup Items(cur.tokens)
                   ELSE accStore[cur.tokens[2]].tags
                           \ (Items(cur.tokens) \ {PUBLIC_TAG})
             /\ accStore' = accStore
    /\ \A op \in {"addprefix", "rmprefix"} :
          (Dispatching(op) /\ Len(cur.tokens) >= 3
              /\ pc'[cur.s] = "upsertTag") =>
             /\ loc'[cur.s].rrev = tagStore[cur.tokens[2]].rev
             /\ loc'[cur.s].pfx =
                   IF op = "addprefix"
                   THEN tagStore[cur.tokens[2]].pfx \cup Items(cur.tokens)
                   ELSE tagStore[cur.tokens[2]].pfx \ Items(cur.tokens)
             /\ tagStore' = tagStore

C15_Writes ==
    /\ \A u \in Users :
          (accStore[u].rev # 0 /\ accStore'[u] # accStore[u]) =>
             \E t \in Sessions :
                /\ pc[t] = "upsertAcc" /\ pc'[t] = "idle"
                /\ loc[t].key = u
                /\ loc[t].rrev = accStore[u].rev
                /\ accStore'[u].tags = loc[t].acc.tags
                /\ accStore'[u].pw = loc[t].acc.pw
    /\ \A g \in TagNames :
          (tagStore[g].rev # 0 /\ tagStore'[g] # tagStore[g]) =>
             \E t \in Sessions :
                /\ pc[t] = "upsertTag" /\ pc'[t] = "idle"
                /\ loc[t].key = g
                /\ loc[t].rrev = tagStore[g].rev
                /\ tagStore'[g].pfx = loc[t].pfx

C15_MultiItemIsOneWrite == [][C15_Computes /\ C15_Writes]_vars

\* teamA went from {/bldg1/, /bldg2/, /bldg3/} to {/bldg3/} in the one write of
\* an rmprefix naming /bldg1/ and /bldg2/
C15_Witness ==
    /\ out.cmd = "rmprefix"
    /\ out.committed
    /\ tagStore["teamA"] = [pfx |-> {"/bldg3/"}, rev |-> 3]

\* C16: when the store reports an error on a command's conditional write, the
\* command reports that error, whatever committed was, and never the Conflict
\* or AlreadyExists message in its place.
C16_PutError ==
    (/\ out' # out
     /\ out'.err
     /\ out'.calls # <<>>
     /\ out'.calls[Len(out'.calls)][1] = "put") =>
       out'.msgs = <<storeError>>

C16_StoreErrorSurfaced == [][C16_PutError]_vars

\* C17: rmuser and undeftag on a key without a stored record report no error
\* and leave the store as it is; after a delete of a key the key has no
\* record, so a second delete of it changes nothing more.
C17_Rmuser ==
    \A t \in Sessions :
       (pc[t] = "rmuser" /\ loc'[t] # loc[t] /\ ~out'.err) =>
          LET u == Head(loc[t].names)
          IN /\ accStore' = [accStore EXCEPT ![u] = NoAcc]
             /\ tagStore' = tagStore
             /\ accStore[u].rev = 0 => (accStore' = accStore /\ rev' = rev)
             /\ pc'[t] = "idle" => out'.msgs = <<>>
             /\ pc'[t] # "idle" => loc'[t].names = Tail(loc[t].names)

C17_Undeftag ==
    \A t \in Sessions :
       (pc[t] = "undeftag" /\ loc'[t] # loc[t] /\ ~out'.err
           /\ Head(loc[t].names) # ALL_TAG) =>
          LET g == Head(loc[t].names)
          IN /\ tagStore' = [tagStore EXCEPT ![g] = NoTagDef]
             /\ accStore' = accStore
             /\ tagStore[g].rev = 0 => (tagStore' = tagStore /\ rev' = rev)
             /\ pc'[t] = "idle" => out'.msgs = loc[t].msgs
             /\ pc'[t] # "idle" => loc'[t].names = Tail(loc[t].names)

C17_DeletesAreIdempotent == [][C17_Rmuser /\ C17_Undeftag]_vars

\* rmuser alice alice on a store holding only alice: the first delete removed
\* the account, the second found nothing, no error was reported
C17_Witness ==
    /\ out.cmd = "rmuser"
    /\ out.calls = <<<<"delete", "alice">>, <<"delete", "alice">>>>
    /\ out.msgs = <<>>
    /\ ~out.err
    /\ rev = 2
    /\ \A u \in Users : accStore[u].rev = 0
    /\ \A g \in TagNames : tagStore[g].rev = 0

\* C18: rmusers p removes exactly the stored accounts whose username starts
\* with p and reports how many they were, leaving the other accounts and all
\* tag definitions as they are; undeftags p does the same to the tag
\* definitions whose name starts with p and leaves every account as it is.
C18_Rmusers ==
    (Dispatching("rmusers") /\ Len(cur.tokens) = 2 /\ ~out'.err) =>
       LET gone == {u \in Users : accStore[u].rev # 0
                                     /\ HasPrefix(u, cur.tokens[2])}
       IN /\ accStore' = [u \in Users |-> IF u \in gone THEN NoAcc ELSE accStore[u]]
          /\ tagStore' = tagStore
          /\ out'.msgs = <<<<"Deleted", Cardinality(gone), "accounts">>>>

C18_Undeftags ==
    (Dispatching("undeftags") /\ Len(cur.tokens) = 2 /\ ~out'.err) =>
       LET gone == {g \in TagNames : tagStore[g].rev # 0
                                        /\ HasPrefix(g, cur.tokens[2])}
       IN /\ tagStore' = [g \in TagNames |-> IF g \in gone THEN NoTagDef ELSE tagStore[g]]
          /\ accStore' = accStore
          /\ out'.msgs = <<<<"Deleted", Cardinality(gone), "tag definitions">>>>

C18_PrefixDeletesAreExact == [][C18_Rmusers /\ C18_Undeftags]_vars

\* rmusers al on a store holding albert and alice removed both and said so
C18_Witness ==
    /\ out.cmd = "rmusers"
    /\ out.calls = <<<<"deleteRange", "al">>>>
    /\ ~out.err
    /\ out.msgs = <<<<"Deleted", 2, "accounts">>>>
    /\ rev = 3
    /\ \A u \in Users : accStore[u].rev = 0

\* C19: lsusers prints one entry for each stored account whose username
\* starts with the prefix given, and for no other; without a prefix it prints
\* one for every stored account.
C19_Lsusers ==
    (Dispatching("lsusers") /\ Len(cur.tokens) \in {1, 2} /\ ~out'.err) =>
       LET listed == {u \in Users :
                        /\ accStore[u].rev # 0
                        /\ Len(cur.tokens) = 2 => HasPrefix(u, cur.tokens[2])}
       IN /\ {out'.msgs[i].user : i \in DOMAIN out'.msgs} = listed
          /\ Len(out'.msgs) = Cardinality(listed)

C19_LsusersListsThePrefix == [][C19_Lsusers]_vars

\* lsusers al over albert, alice and bob has printed albert and alice
C19_Witness ==
    /\ out.cmd = "lsusers"
    /\ out.calls = <<<<"list", "al">>>>
    /\ ~out.err
    /\ \A u \in Users : accStore[u].rev # 0
    /\ {out.msgs[i].user : i \in DOMAIN out.msgs} = {"alice", "albert"}

\* C20: in lsusers, lstagdefs and ls a record whose tag set or prefix set
\* decodes to nil is printed by key with the corrupt-entry tag, and every
\* other record of the scan is printed as well: a listing that ends without a
\* store or lookup failure has one line for each record under its prefix.
C20_Printed(lines, key, corrupt) ==
    \E i \in DOMAIN lines :
       /\ lines[i].kind # "lookupFailed"
       /\ lines[i].user = key
       /\ (lines[i].kind = "corrupt") = corrupt

C20_Accounts(prefix, lines) ==
    \A u \in Users :
       (accStore[u].rev # 0 /\ HasPrefix(u, prefix)) =>
          C20_Printed(lines, u, accStore[u].tags = {"<nil>"})

C20_Listing ==
    /\ (Dispatching("lsusers") /\ Len(cur.tokens) \in {1, 2} /\ ~out'.err) =>
          C20_Accounts(IF Len(cur.tokens) = 2 THEN cur.tokens[2] ELSE "", out'.msgs)
    /\ (Dispatching("lstagdefs") /\ Len(cur.tokens) \in {1, 2} /\ ~out'.err) =>
          \A g \in TagNames :
             (/\ tagStore[g].rev # 0
              /\ HasPrefix(g, IF Len(cur.tokens) = 2 THEN cur.tokens[2] ELSE "")) =>
                C20_Printed(out'.msgs, g, tagStore[g].pfx = {"<nil>"})
    /\ \A t \in Sessions :
          (/\ out' # out
           /\ out'.s = t
           /\ out'.cmd = "ls"
           /\ out'.calls # <<>>
           /\ ~out'.err
           /\ \A i \in DOMAIN out'.msgs : out'.msgs[i].kind # "lookupFailed") =>
             C20_Accounts(out'.calls[1][2], out'.msgs)

C20_CorruptEntriesAreListed == [][C20_Listing]_vars

\* ls over alice, whose tag set is nil, and bob printed alice as corrupt and
\* went on to print bob's prefixes
C20_Witness ==
    /\ out.cmd = "ls"
    /\ out.calls # <<>>
    /\ ~out.err
    /\ Len(out.msgs) = 2
    /\ out.msgs[1] = [kind |-> "corrupt", user |-> "alice"]
    /\ out.msgs[2] = [kind |-> "line", user |-> "bob", prefixes |-> {"/bldg1/"}]


\* C21: lstagdefs prints the virtual entry "all: <ALL STREAMS>" exactly once
\* when the requested prefix is a prefix of "all" (the empty prefix included)
\* and not at all otherwise, whether or not the store holds a record named all.
C21_AllLines(lines) ==
    {i \in DOMAIN lines : lines[i].kind # "corrupt" /\ lines[i].user = ALL_TAG}

C21_Lstagdefs ==
    (Dispatching("lstagdefs") /\ Len(cur.tokens) \in {1, 2} /\ ~out'.err) =>
       LET prefix == IF Len(cur.tokens) = 2 THEN cur.tokens[2] ELSE ""
           shown == C21_AllLines(out'.msgs)
           corrupt == {i \in DOMAIN out'.msgs :
                         /\ out'.msgs[i].kind = "corrupt"
                         /\ out'.msgs[i].user = ALL_TAG}
       IN /\ corrupt = {}
          /\ IF prefix \in {"", "a", "al", "all"}
             THEN /\ Cardinality(shown) = 1
                  /\ \A i \in shown :
                        out'.msgs[i] = [kind |-> "line", user |-> ALL_TAG,
                                        prefixes |-> {"<ALL STREAMS>"}]
             ELSE shown = {}

C21_VirtualAllEntryOnce == [][C21_Lstagdefs]_vars

\* lstagdefs a on a store that holds a record named all printed the one
\* virtual line and nothing of the stored record
C21_Witness ==
    /\ out.cmd = "lstagdefs"
    /\ out.calls = <<<<"list", "a">>>>
    /\ ~out.err
    /\ tagStore[ALL_TAG].rev # 0
    /\ out.msgs = <<[kind |-> "line", user |-> ALL_TAG,
                     prefixes |-> {"<ALL STREAMS>"}]>>

\* C22: when the tag set of the account ls is resolving contains "all", the
\* check for "all" comes before any per-tag lookup: resolving that account
\* issues no tag-definition lookup, whatever its other tags and whatever the
\* order the tag set is iterated in.
C22_LsOnAll ==
    \A s \in Sessions :
       (pc[s] = "ls" /\ ALL_TAG \in Head(loc[s].accs).tags) =>
          (IF pc'[s] = "idle" THEN out'.calls ELSE loc'[s].calls) = loc[s].calls

C22_AllCheckedBeforeLookups == [][C22_LsOnAll]_vars

\* C23: during one bulk ls the cache makes each distinct tag name be looked up
\* in the store at most once, however many of the listed accounts hold it.
C23_LookedUpOnce(calls) ==
    \A i, j \in DOMAIN calls :
       (calls[i][1] = "get" /\ calls[j] = calls[i]) => i = j

C23_EachTagLookedUpOnce ==
    /\ out.cmd = "ls" => C23_LookedUpOnce(out.calls)
    /\ \A s \in Sessions : pc[s] = "ls" => C23_LookedUpOnce(loc[s].calls)

\* C24: for an account whose tag set does not contain "all" and whose tags all
\* have a stored definition, the prefix set ls prints is exactly the union of
\* the pathPrefixes of those definitions.
C24_Defined(tags) ==
    /\ tags # {"<nil>"}
    /\ ALL_TAG \notin tags
    /\ \A tag \in tags : tagStore[tag].rev # 0 /\ tagStore[tag].pfx # {"<nil>"}

C24_LsOnDefined ==
    \A s \in Sessions :
       (/\ pc[s] = "ls"
        /\ C24_Defined(Head(loc[s].accs).tags)
        /\ \/ pc'[s] = "idle" /\ ~out'.err
           \/ pc'[s] = "ls" /\ loc'[s].accs # loc[s].accs) =>
          LET lines == IF pc'[s] = "idle" THEN out'.msgs ELSE loc'[s].lines
              acc == Head(loc[s].accs)
          IN /\ lines # <<>>
             /\ lines[Len(lines)] =
                   [kind |-> "line", user |-> acc.user,
                    prefixes |-> UNION {tagStore[tag].pfx : tag \in acc.tags}]

C24_PermissionsAreTheUnion == [][C24_LsOnDefined]_vars

\* ls printed alice, who holds public = {/bldg1/} and teamA = {/bldg2/}, with
\* both prefixes
C24_Witness ==
    /\ out.cmd = "ls"
    /\ out.calls # <<>>
    /\ ~out.err
    /\ accStore["alice"].rev # 0
    /\ accStore["alice"].tags = {PUBLIC_TAG, "teamA"}
    /\ tagStore[PUBLIC_TAG].rev # 0
    /\ tagStore["teamA"].rev # 0
    /\ tagStore["teamA"].pfx = {"/bldg2/"}
    /\ out.msgs # <<>>
    /\ out.msgs[1] = [kind |-> "line", user |-> "alice",
                      prefixes |-> {"/bldg1/", "/bldg2/"}]

\* C25: when ls looks a tag of an account up and the lookup fails (the store
\* errs or holds no definition of the tag), the resolution of that account is
\* given up: the lookup error naming the tag is the last thing written and no
\* permission line is written for that account.
C25_LookupFails ==
    \A s \in Sessions :
       \A tag \in TagNames :
          (/\ pc[s] = "ls"
           /\ pc'[s] = "idle"
           /\ tag \in Head(loc[s].accs).tags
           /\ out'.calls = Append(loc[s].calls, <<"get", tag>>)
           /\ (out'.err \/ tagStore[tag].rev = 0)) =>
             /\ out'.msgs = Append(loc[s].lines,
                                   [kind |-> "lookupFailed", tag |-> tag])
             /\ \A i \in DOMAIN out'.msgs :
                   out'.msgs[i].kind \in {"line", "corrupt"} =>
                      out'.msgs[i].user # Head(loc[s].accs).user

C25_LookupErrorAbortsAccount == [][C25_LookupFails]_vars

\* ls reached alice, who holds teamA, found no definition of teamA and ended
\* with the error naming teamA in place of alice's line
C25_Witness ==
    /\ out.cmd = "ls"
    /\ Len(out.calls) >= 2
    /\ accStore["alice"].rev # 0
    /\ accStore["alice"].tags = {PUBLIC_TAG, "teamA"}
    /\ tagStore["teamA"].rev = 0
    /\ out.msgs = <<[kind |-> "lookupFailed", tag |-> "teamA"]>>

\* C26: resolving the same account twice with no mutation of the store in
\* between gives the same outcome, the same prefix set or the same error,
\* whatever order the tag set is iterated in: two ls runs over the same prefix
\* of an unchanged store agree on the entry of every account both have reached.
C26_Agree(first, second) ==
    \A i \in DOMAIN first \cap DOMAIN second : first[i] = second[i]

C26_ResolutionIsRepeatable ==
    \A s \in Sessions, t \in Sessions :
       (/\ s # t
        /\ out.s = s
        /\ out.cmd = "ls"
        /\ out.calls # <<>>
        /\ ~out.err
        /\ pc[t] = "ls"
        /\ loc[t].calls[1] = out.calls[1]) =>
          C26_Agree(out.msgs, loc[t].lines)

\* C27: grant (addtags in main.go) of the tags T on an account whose stored tag
\* set is S commits S \cup T: tags already held are left alone, so a grant
\* whose tags are all held, such as the second run of the same grant, commits
\* S again. addprefix does the same to the prefix set of a tag definition.
C27_Grant ==
    (Dispatching("grant") /\ Len(cur.tokens) >= 3
        /\ accStore[cur.tokens[2]].rev # 0 /\ pc'[cur.s] = "upsertAcc") =>
       LET S == accStore[cur.tokens[2]].tags
           T == Items(cur.tokens)
       IN /\ loc'[cur.s].acc.tags = S \cup T
          /\ T \subseteq S => loc'[cur.s].acc.tags = S
          /\ loc'[cur.s].acc.pw = accStore[cur.tokens[2]].pw

C27_Addprefix ==
    (Dispatching("addprefix") /\ Len(cur.tokens) >= 3
        /\ pc'[cur.s] = "upsertTag") =>
       LET S == tagStore[cur.tokens[2]].pfx
           T == Items(cur.tokens)
       IN /\ loc'[cur.s].pfx = S \cup T
          /\ T \subseteq S => loc'[cur.s].pfx = S

C27_Commit ==
    \A t \in Sessions :
       /\ (/\ pc[t] = "upsertAcc"
           /\ loc[t].cmd \in {"grant", "addtags"}
           /\ pc'[t] = "idle"
           /\ out'.committed) =>
             /\ loc[t].rrev = accStore[loc[t].key].rev
             /\ accStore'[loc[t].key].tags = loc[t].acc.tags
       /\ (/\ pc[t] = "upsertTag"
           /\ loc[t].cmd = "addprefix"
           /\ pc'[t] = "idle"
           /\ out'.committed) =>
             /\ loc[t].rrev = tagStore[loc[t].key].rev
             /\ tagStore'[loc[t].key].pfx = loc[t].pfx

C27_GrantIsUnion == [][C27_Grant /\ C27_Addprefix /\ C27_Commit]_vars

\* a grant to alice of a tag she already held was committed and her tag set
\* is the one she had
C27_Witness ==
    /\ out.cmd = "grant"
    /\ out.committed
    /\ accStore["alice"].rev = 2
    /\ accStore["alice"].tags = {PUBLIC_TAG, "teamA"}

\* C28: the multi-item deletes are not transactional. When rmuser u1 .. un, or
\* undeftag t1 .. tn, gets a store error on item i, the error is surfaced and
\* the handler ends there: the records of items 1 .. i-1 stay deleted, nothing
\* is restored, and no delete is issued for items i+1 .. n. The loop moves
\* past an item only when its delete went through.
C28_Stops(t, store, store2) ==
    /\ out'.calls = Append(loc[t].calls, <<"delete", Head(loc[t].names)>>)
    /\ out'.msgs # <<>>
    /\ out'.msgs[Len(out'.msgs)] = "StoreUnavailable"
    /\ store2 = store
    /\ \A j \in DOMAIN loc[t].calls : store2[loc[t].calls[j][2]].rev = 0

C28_MovesOn(t, store2) ==
    /\ loc'[t].calls = Append(loc[t].calls, <<"delete", Head(loc[t].names)>>)
    /\ loc'[t].names = Tail(loc[t].names)
    /\ store2[Head(loc[t].names)].rev = 0
    /\ out' = out

C28_DeleteLoop ==
    \A t \in Sessions :
       /\ (pc[t] = "rmuser" /\ pc'[t] = "idle" /\ out'.err) =>
             C28_Stops(t, accStore, accStore')
       /\ (pc[t] = "rmuser" /\ pc'[t] = "rmuser" /\ loc'[t] # loc[t]) =>
             C28_MovesOn(t, accStore')
       /\ (pc[t] = "undeftag" /\ pc'[t] = "idle" /\ out'.err) =>
             C28_Stops(t, tagStore, tagStore')
       /\ (pc[t] = "undeftag" /\ pc'[t] = "undeftag" /\ loc'[t] # loc[t]) =>
             C28_MovesOn(t, tagStore')

C28_DeletesAreNotTransactional == [][C28_DeleteLoop]_vars

\* rmuser alice bob deleted alice, failed on bob and ended with the error:
\* alice is gone, bob is still stored
C28_Witness ==
    /\ out.cmd = "rmuser"
    /\ out.err
    /\ out.calls = <<<<"delete", "alice">>, <<"delete", "bob">>>>
    /\ out.msgs = <<"StoreUnavailable">>
    /\ accStore["alice"].rev = 0
    /\ accStore["bob"].rev # 0
    /\ rev = 3

\* C29: every command checks its token count before it calls into the store:
\* entered with a count outside the ones it accepts, a handler returns having
\* issued no read, write or delete, and the store is as it was. A deftag that
\* does write therefore has at least one prefix to store.
C29_Accepts(v, name, n) ==
    CASE name \in {"adduser", "grant", "revoke", "addtags", "rmtags",
                   "deftag", "addprefix", "rmprefix"} -> n >= 3
      [] name = "setpassword" -> n = 3
      [] name = "rmuser" -> IF v = "v1" THEN n = 2 ELSE n >= 2
      [] name = "undeftag" -> n >= 2
      [] name \in {"rmusers", "undeftags"} -> n = 2
      [] name \in {"lsusers", "lstagdefs", "ls"} -> n \in {1, 2}

C29_Rejects ==
    (/\ cur # NoCmd
     /\ cur' = NoCmd
     /\ ~C29_Accepts(cur.variant, cur.tokens[1], Len(cur.tokens))) =>
       /\ pc'[cur.s] = "idle"
       /\ out'.s = cur.s
       /\ out'.calls = <<>>
       /\ ~out'.committed
       /\ ~out'.err
       /\ accStore' = accStore
       /\ tagStore' = tagStore
       /\ rev' = rev

C29_DeftagStores ==
    \A g \in TagNames :
       (Dispatching("deftag") /\ tagStore'[g] # tagStore[g]) =>
          /\ Len(cur.tokens) >= 3
          /\ tagStore'[g].pfx # {}

C29_ArityCheckedFirst == [][C29_Rejects /\ C29_DeftagStores]_vars

\* with alice and teamA stored, a setpassword with one token too many was
\* answered with the usage line and no store call
C29_Witness ==
    /\ out.cmd = "setpassword"
    /\ out.msgs = <<"Usage">>
    /\ out.calls = <<>>
    /\ accStore["alice"].rev # 0
    /\ tagStore["teamA"].rev # 0

\* C30: the reserved tag "all" is never a stored record: from a store that
\* holds no tag definition named "all", no sequence or interleaving of deftag,
\* addprefix, rmprefix, undeftag and undeftags leaves a definition stored
\* under the key "all".
C30_AllIsNeverStored == tagStore[ALL_TAG].rev = 0

\* with teamA defined, an addprefix on "all" was turned away and no record
\* named all is stored
C30_Witness ==
    /\ out.cmd = "addprefix"
    /\ out.msgs = <<cannotModifyAll>>
    /\ out.calls = <<>>
    /\ tagStore["teamA"].rev # 0
    /\ tagStore[ALL_TAG].rev = 0

\* C31: a committed mutation changes only its own field of its own record.
\* An account changes only in a step of an account command that names it (or,
\* for rmusers, whose prefix it begins with), setpassword leaving its tag set
\* and grant and revoke leaving its credential as they were; a tag definition
\* changes only in a step of a tag-definition command that names it. So no
\* account command touches another account or any tag definition, and no
\* tag-definition command touches any account.
C31_AccountWriter(u) ==
    \/ Dispatching("adduser") /\ Len(cur.tokens) >= 3 /\ cur.tokens[2] = u
       /\ accStore[u].rev = 0
    \/ Dispatching("rmusers") /\ Len(cur.tokens) = 2
       /\ SubSeq(Chars(u), 1, Len(Chars(cur.tokens[2]))) = Chars(cur.tokens[2])
       /\ accStore'[u].rev = 0
    \/ \E t \in Sessions :
          /\ pc[t] = "rmuser"
          /\ Head(loc[t].names) = u
          /\ accStore'[u].rev = 0
    \/ \E t \in Sessions :
          /\ pc[t] = "upsertAcc"
          /\ pc'[t] = "idle"
          /\ loc[t].key = u
          /\ accStore'[u].rev # 0
          /\ loc[t].cmd = "setpassword" => accStore'[u].tags = accStore[u].tags
          /\ loc[t].cmd \in {"grant", "revoke", "addtags", "rmtags"} =>
                accStore'[u].pw = accStore[u].pw

C31_TagDefWriter(g) ==
    \/ Dispatching("deftag") /\ Len(cur.tokens) >= 3 /\ cur.tokens[2] = g
       /\ tagStore[g].rev = 0
    \/ Dispatching("undeftags") /\ Len(cur.tokens) = 2
       /\ SubSeq(Chars(g), 1, Len(Chars(cur.tokens[2]))) = Chars(cur.tokens[2])
       /\ tagStore'[g].rev = 0
    \/ \E t \in Sessions :
          /\ pc[t] = "undeftag"
          /\ Head(loc[t].names) = g
          /\ tagStore'[g].rev = 0
    \/ \E t \in Sessions :
          /\ pc[t] = "upsertTag"
          /\ pc'[t] = "idle"
          /\ loc[t].key = g
          /\ tagStore'[g].rev # 0

C31_Frame ==
    /\ \A u \in Users : accStore'[u] # accStore[u] => C31_AccountWriter(u)
    /\ \A g \in TagNames : tagStore'[g] # tagStore[g] => C31_TagDefWriter(g)

C31_MutationsTouchOnlyTheirField == [][C31_Frame]_vars

\* with bob and teamB stored, a setpassword on alice was committed: alice has
\* the new credential and the tag set adduser gave her, bob and teamB are as
\* they were
C31_Witness ==
    /\ out.cmd = "setpassword"
    /\ out.committed
    /\ accStore["alice"].rev # 0
    /\ accStore["alice"].pw = <<"hash", "pw2">>
    /\ accStore["alice"].tags = {PUBLIC_TAG, "teamA"}
    /\ accStore["bob"] = [pw |-> <<"hash", "pw2">>, tags |-> {PUBLIC_TAG, "teamB"},
                          rev |-> 1]

\* C32: an update never brings a deleted record back. A session holds the
\* version it read; a delete leaves the key without a version and a later
\* re-creation gives it a version no reader holds. So when the record a
\* session read has since been deleted, re-created or not, the session's
\* conditional write is not committed, it reports the conflict, and the store
\* is left exactly as the other session left it.
C32_ReadersHoldPastVersions ==
    \A t \in Sessions :
       /\ pc[t] = "upsertAcc" => (loc[t].rrev >= 1 /\ loc[t].rrev <= rev)
       /\ pc[t] = "upsertTag" => (loc[t].rrev >= 1 /\ loc[t].rrev <= rev)

C32_FreshVersions ==
    /\ \A u \in Users :
          accStore'[u] # accStore[u] =>
             (accStore'[u].rev \in {0, rev + 1} /\ rev' = rev + 1)
    /\ \A g \in TagNames :
          tagStore'[g] # tagStore[g] =>
             (tagStore'[g].rev \in {0, rev + 1} /\ rev' = rev + 1)

C32_StaleWrite ==
    \A t \in Sessions :
       /\ (/\ pc[t] = "upsertAcc"
           /\ pc'[t] = "idle"
           /\ accStore[loc[t].key].rev # loc[t].rrev) =>
             /\ ~out'.committed
             /\ out'.msgs = <<txFail>>
             /\ accStore' = accStore
             /\ tagStore' = tagStore
       /\ (/\ pc[t] = "upsertTag"
           /\ pc'[t] = "idle"
           /\ tagStore[loc[t].key].rev # loc[t].rrev) =>
             /\ ~out'.committed
             /\ out'.msgs = <<txFail>>
             /\ accStore' = accStore
             /\ tagStore' = tagStore

C32_Step == C32_ReadersHoldPastVersions /\ C32_FreshVersions /\ C32_StaleWrite

C32_NoResurrection == [][C32_Step]_vars

\* a grant read alice's account as adduser wrote it at version 1; rmuser then
\* deleted it and adduser created it again at version 3; the grant's write was
\* refused with the conflict message and alice's record is the re-created one
C32_Witness ==
    /\ out.cmd = "grant"
    /\ ~out.committed
    /\ out.msgs = <<txFail>>
    /\ rev = 3
    /\ accStore["alice"] = [pw |-> <<"hash", "pw1">>,
                            tags |-> {PUBLIC_TAG, "teamA"}, rev |-> 3]
    /\ \A g \in TagNames : tagStore[g].rev = 0

\* C33: MrPlotterCommand.Run passes the output writer it was given to the
\* command's exec function: every message a command of the admincli module
\* emits when it is entered through Run is written to the output argument of
\* Run.
C33_Run ==
    (/\ cur # NoCmd
     /\ cur' = NoCmd
     /\ cur.variant = "cli"
     /\ out'.msgs # <<>>) =>
       writeString(Run("output"), "output", out'.msgs) = out'.msgs

C33_RunWritesToItsOutput == [][C33_Run]_vars

\* C34: showtagdef t1 .. tn handles every name in order. For a name equal to
\* "all" it writes the line "all: <ALL STREAMS>" without a store lookup; for
\* any other name it looks the name up and writes its stored prefix set, or
\* stops with the lookup error. Where "all" stands in the list neither
\* suppresses nor alters what is written for the other names: after a name is
\* written the loop goes on to the next one.
C34_After(t) ==
    IF pc'[t] = "idle"
    THEN [lines |-> out'.msgs, calls |-> out'.calls, names |-> <<>>]
    ELSE [lines |-> loc'[t].lines, calls |-> loc'[t].calls, names |-> loc'[t].names]

C34_Pass(t) ==
    LET l == loc[t]
        name == Head(l.names)
        after == C34_After(t)
        line == [kind |-> "line", user |-> name,
                 prefixes |-> IF name = ALL_TAG THEN {"<ALL STREAMS>"}
                              ELSE tagStore[name].pfx]
    IN IF name = ALL_TAG
       THEN /\ after.calls = l.calls
            /\ after.lines = Append(l.lines, line)
            /\ after.names = Tail(l.names)
       ELSE /\ after.calls = Append(l.calls, <<"get", name>>)
            /\ IF out'.err /\ pc'[t] = "idle"
               THEN after.lines = Append(l.lines, "StoreUnavailable")
               ELSE IF tagStore[name].rev = 0
               THEN /\ pc'[t] = "idle"
                    /\ after.lines = Append(l.lines, "NotFound")
               ELSE /\ after.lines = Append(l.lines, line)
                    /\ after.names = Tail(l.names)

C34_Showtagdef ==
    \A t \in Sessions :
       (pc[t] = "showtagdef" /\ (pc'[t] = "idle" \/ loc'[t] # loc[t])) =>
          C34_Pass(t)

C34_ShowtagdefHandlesEveryName == [][C34_Showtagdef]_vars

=============================================================================
